---- MODULE Spec2Model ----
(***************************************************************************)
(* B-rep kernel of xrcad: shell closure analysis, body classification and  *)
(* the primitive generators, as state machines over the kernel's data.     *)
(*                                                                         *)
(* Option<T> is modelled as a sequence of length at most one: <<>> is      *)
(* None and <<v>> is Some(v).                                              *)
(***************************************************************************)
EXTENDS Integers, Sequences, FiniteSets, TLC

VARIABLES
    shell,          \* one Shell: faces, is_closed, boundary_edges
    edge_face_map,  \* the HashMap<EdgeRef, Vec<FaceRef>> handed to compute_properties
    shellOp,        \* the last operation applied to the shell, its argument and return value
    body,           \* one Body: outer_shell, inner_shells, body_type
    shells,         \* the HashMap<ShellRef, Shell> handed to the body's queries
    bodyOp,         \* the last operation on the body or the shell table, its argument and return value
    prim,           \* the last generator call: its name, arguments and returned bundle
    props,          \* one BodyProperties
    propsOp,        \* the last operation on the BodyProperties, its arguments and return value
    collection,     \* one BodyPropertiesCollection: its HashMap<BodyId, BodyProperties>
    collOp,         \* the last operation on the collection, its arguments and return value
    live,           \* history: the body ids added to the collection and not removed since
    plane,          \* the plane the caller holds: an Option<BrepPlane>
    planeOp,        \* the last plane call: its name, arguments, receiver and result
    generators,     \* one IdGenerator<T> per id type T: its next_id
    issued,         \* history: per generator, the ids its new_id calls returned, in order
    idOp            \* the last call on a generator: its name, the generator and the id returned

vars == <<shell, edge_face_map, shellOp, body, shells, bodyOp, prim,
          props, propsOp, collection, collOp, live, plane, planeOp,
          generators, issued, idOp>>

shellVars == <<shell, edge_face_map, shellOp>>
bodyVars == <<body, shells, bodyOp>>
primVars == <<prim>>
propsVars == <<props, propsOp>>
collVars == <<collection, collOp, live>>
planeVars == <<plane, planeOp>>
idVars == <<generators, issued, idOp>>

----------------------------------------------------------------------------
(* Bounds *)

NumFaces == 3
MaxShellFaces == 3

\* FaceRef and EdgeRef values: opaque identifiers.  Two edge keys tell a boundary edge
\* from an edge that is none; three faces let one edge have 0, 1, 2 or 3 member faces.
Faces == 1..NumFaces
Edges == {"e1", "e2"}

----------------------------------------------------------------------------
(* Helpers *)

None == <<>>
Some(v) == <<v>>

Range(s) == {s[i] : i \in 1..Len(s)}

SeqsUpTo(S, n) == UNION {[1..k -> S] : k \in 0..n}

\* Vec::remove(pos): the sequence without its element at pos
RemoveAt(s, pos) == [i \in 1..(Len(s) - 1) |-> IF i < pos THEN s[i] ELSE s[i + 1]]

\* Iterator::position: the first index whose element is x, 0 when there is none
Position(s, x) ==
    IF \E i \in 1..Len(s) : s[i] = x
    THEN CHOOSE i \in 1..Len(s) : s[i] = x /\ \A j \in 1..(i - 1) : s[j] # x
    ELSE 0

\* The orders in which a HashMap with key set S may be iterated
KeyOrders(S) ==
    {o \in [1..Cardinality(S) -> S] : \A i, j \in 1..Cardinality(S) : i # j => o[i] # o[j]}

\* The values of the variables a specification does not use
ShellIdle == [faces |-> <<>>, is_closed |-> FALSE, boundary_edges |-> None]
NoMap == [e \in {} |-> {}]
ShellOpIdle == [op |-> "idle", face |-> 0, ret |-> FALSE]
BodyIdle == [outer_shell |-> 0, inner_shells |-> <<>>, body_type |-> None]
BodyOpIdle == [op |-> "idle", ref |-> 0, ret |-> FALSE]
PrimIdle == [gen |-> "none", args |-> <<>>, result |-> None]
PropsIdle == <<>>
PropsOpIdle == [op |-> "idle", args |-> <<>>, ret |-> None, since |-> {}, cleared |-> {}]
CollIdle == <<>>
CollOpIdle == [op |-> "idle", args |-> <<>>, ret |-> None]
PlaneIdle == None
PlaneOpIdle == [op |-> "idle", args |-> <<>>, self |-> None, result |-> None]
GeneratorsIdle == <<>>
IdOpIdle == [op |-> "idle", kind |-> "", ret |-> None]

----------------------------------------------------------------------------
(* Shell  (model/brep/topology/shell.rs) *)

\* Shell::new
ShellNew(faces) == [faces |-> faces, is_closed |-> FALSE, boundary_edges |-> None]

\* The edge-to-face maps: some edges are keys, each with the faces adjacent to it
\* (a Vec<FaceRef> that lists each adjacent face once)
EdgeFaceMaps == UNION {[K -> SUBSET Faces] : K \in SUBSET Edges}

\* face_refs.iter().filter(|face| self.faces.contains(face)).collect()
faces_in_shell(s, face_refs) == {f \in face_refs : f \in Range(s.faces)}

\* Shell::invalidate_cache
ShellInvalidateCache(s) == [s EXCEPT !.boundary_edges = None]

\* Shell::add_face
add_face(s, face) == ShellInvalidateCache([s EXCEPT !.faces = Append(s.faces, face)])

\* remove_face that invalidates the cache whether or not it found the face
remove_face_AlwaysInvalidates(s, face) ==
    IF Position(s.faces, face) # 0
    THEN ShellInvalidateCache([s EXCEPT !.faces = RemoveAt(s.faces, Position(s.faces, face))])
    ELSE ShellInvalidateCache(s)

\* Shell::remove_face: the shell afterwards
remove_face(s, face) ==
    IF Position(s.faces, face) # 0
    THEN ShellInvalidateCache([s EXCEPT !.faces = RemoveAt(s.faces, Position(s.faces, face))])
    ELSE s

\* Shell::remove_face: the value returned
remove_face_ret(s, face) == Position(s.faces, face) # 0

\* compute_closure that flips the stored flag when it finds no boundary edge
compute_closure_Toggles(s, map, keys) ==
    IF \E i \in 1..Len(keys) : Cardinality(faces_in_shell(s, map[keys[i]])) = 1
    THEN [s EXCEPT !.is_closed = FALSE]
    ELSE [s EXCEPT !.is_closed = ~s.is_closed]

\* Shell::compute_closure, the map being iterated in the order keys
compute_closure(s, map, keys) ==
    IF \E i \in 1..Len(keys) : Cardinality(faces_in_shell(s, map[keys[i]])) = 1
    THEN [s EXCEPT !.is_closed = FALSE]
    ELSE [s EXCEPT !.is_closed = TRUE]

\* compute_boundary_edges collecting every edge whose member-face count is not two
compute_boundary_edges_NotTwo(s, map, keys) ==
    IF s.is_closed
    THEN [s EXCEPT !.boundary_edges = None]
    ELSE [s EXCEPT !.boundary_edges =
            Some(SelectSeq(keys, LAMBDA e : Cardinality(faces_in_shell(s, map[e])) # 2))]

\* Shell::compute_boundary_edges, the map being iterated in the order keys
compute_boundary_edges(s, map, keys) ==
    IF s.is_closed
    THEN [s EXCEPT !.boundary_edges = None]
    ELSE [s EXCEPT !.boundary_edges =
            Some(SelectSeq(keys, LAMBDA e : Cardinality(faces_in_shell(s, map[e])) = 1))]

\* Shell::compute_properties
compute_properties(s, map, keys) ==
    compute_boundary_edges(compute_closure(s, map, keys), map, keys)

\* Shell::is_closed
is_closed(s) == s.is_closed

\* Shell::boundary_edges
boundary_edges(s) == s.boundary_edges


InitShell ==
    /\ body = BodyIdle /\ shells = <<>> /\ bodyOp = BodyOpIdle /\ prim = PrimIdle
    /\ props = PropsIdle /\ propsOp = PropsOpIdle
    /\ collection = CollIdle /\ collOp = CollOpIdle /\ live = {}
    /\ plane = PlaneIdle /\ planeOp = PlaneOpIdle
    /\ generators = GeneratorsIdle /\ issued = <<>> /\ idOp = IdOpIdle
    /\ \E faces \in SeqsUpTo(Faces, MaxShellFaces) : shell = ShellNew(faces)
    /\ edge_face_map \in EdgeFaceMaps
    /\ shellOp = [op |-> "new", face |-> 0, ret |-> TRUE]

AddFace ==
    /\ shellOp.op # "idle"
    /\ Len(shell.faces) < MaxShellFaces
    /\ \E face \in Faces :
        /\ shell' = add_face(shell, face)
        /\ shellOp' = [op |-> "add_face", face |-> face, ret |-> TRUE]
    /\ UNCHANGED <<edge_face_map, bodyVars, primVars, propsVars, collVars, planeVars, idVars>>

RemoveFace ==
    /\ shellOp.op # "idle"
    /\ \E face \in Faces :
        /\ shell' = remove_face(shell, face)
        /\ shellOp' = [op |-> "remove_face", face |-> face, ret |-> remove_face_ret(shell, face)]
    /\ UNCHANGED <<edge_face_map, bodyVars, primVars, propsVars, collVars, planeVars, idVars>>

ComputeProperties ==
    /\ shellOp.op # "idle"
    /\ \E keys \in KeyOrders(DOMAIN edge_face_map) :
        shell' = compute_properties(shell, edge_face_map, keys)
    /\ shellOp' = [op |-> "compute_properties", face |-> 0, ret |-> TRUE]
    /\ UNCHANGED <<edge_face_map, bodyVars, primVars, propsVars, collVars, planeVars, idVars>>

NextShell == AddFace \/ RemoveFace \/ ComputeProperties

----------------------------------------------------------------------------
(* Body  (model/brep/topology/body.rs) *)

NumShells == 3
MaxInnerShells == 2

\* ShellRef values
ShellIds == 1..NumShells

BodyTypes == {"Solid", "Hollow", "Open", "Compound"}

\* The shell tables: each ShellRef is a key or not; of the Shell stored under a key
\* the body reads is_closed only
ShellEntries == {None, Some([is_closed |-> TRUE]), Some([is_closed |-> FALSE])}
ShellTables == [ShellIds -> ShellEntries]

\* HashMap::get
TableGet(tbl, ref) == tbl[ref]

\* Body::new
BodyNew(outer_shell) ==
    [outer_shell |-> outer_shell, inner_shells |-> <<>>, body_type |-> None]

\* Body::new_solid
new_solid(outer_shell) ==
    [outer_shell |-> outer_shell, inner_shells |-> <<>>, body_type |-> Some("Solid")]

\* Body::new_hollow
new_hollow(outer_shell, inner_shells) ==
    [outer_shell |-> outer_shell, inner_shells |-> inner_shells, body_type |-> Some("Hollow")]

\* invalidate_cache leaving the cached type in place
BodyInvalidateCache_Keeps(b) == b

\* Body::invalidate_cache
BodyInvalidateCache(b) == [b EXCEPT !.body_type = None]

\* Body::add_inner_shell
add_inner_shell(b, ref) ==
    BodyInvalidateCache([b EXCEPT !.inner_shells = Append(b.inner_shells, ref)])

\* Body::remove_inner_shell: the body afterwards
remove_inner_shell(b, ref) ==
    IF Position(b.inner_shells, ref) # 0
    THEN BodyInvalidateCache(
            [b EXCEPT !.inner_shells = RemoveAt(b.inner_shells, Position(b.inner_shells, ref))])
    ELSE b

\* Body::remove_inner_shell: the value returned
remove_inner_shell_ret(b, ref) == Position(b.inner_shells, ref) # 0

\* a missing inner shell counted as closed: unwrap_or(true)
InnerClosed_MissingIsClosed(tbl, ref) ==
    IF TableGet(tbl, ref) # None THEN is_closed(TableGet(tbl, ref)[1]) ELSE TRUE

\* shells.get(&shell_ref).map(|s| s.is_closed()).unwrap_or(false)
InnerClosed(tbl, ref) ==
    IF TableGet(tbl, ref) # None THEN is_closed(TableGet(tbl, ref)[1]) ELSE FALSE

\* body_type classifying afresh on every call, the cached type ignored
body_type_IgnoresCache(b, tbl) ==
    LET outer == TableGet(tbl, b.outer_shell) IN
    IF b.inner_shells = <<>>
    THEN IF outer # None
         THEN IF is_closed(outer[1]) THEN "Solid" ELSE "Open"
         ELSE "Open"
    ELSE IF outer # None
         THEN IF is_closed(outer[1])
              THEN IF \A i \in 1..Len(b.inner_shells) : InnerClosed(tbl, b.inner_shells[i])
                   THEN "Hollow"
                   ELSE "Compound"
              ELSE "Compound"
         ELSE "Compound"

\* Body::body_type
body_type(b, tbl) ==
    IF b.body_type # None
    THEN b.body_type[1]
    ELSE LET outer == TableGet(tbl, b.outer_shell) IN
         IF b.inner_shells = <<>>
         THEN IF outer # None
              THEN IF is_closed(outer[1]) THEN "Solid" ELSE "Open"
              ELSE "Open"
         ELSE IF outer # None
              THEN IF is_closed(outer[1])
                   THEN IF \A i \in 1..Len(b.inner_shells) : InnerClosed(tbl, b.inner_shells[i])
                        THEN "Hollow"
                        ELSE "Compound"
                   ELSE "Compound"
              ELSE "Compound"

\* Body::compute_body_type
compute_body_type(b, tbl) == [b EXCEPT !.body_type = Some(body_type(b, tbl))]

\* is_valid looking at the outer shell only
is_valid_OuterOnly(b, tbl) ==
    IF TableGet(tbl, b.outer_shell) = None
    THEN FALSE
    ELSE TRUE

\* Body::is_valid
is_valid(b, tbl) ==
    IF TableGet(tbl, b.outer_shell) = None
    THEN FALSE
    ELSE \A i \in 1..Len(b.inner_shells) : TableGet(tbl, b.inner_shells[i]) # None

InitBody ==
    /\ shell = ShellIdle /\ edge_face_map = NoMap /\ shellOp = ShellOpIdle /\ prim = PrimIdle
    /\ props = PropsIdle /\ propsOp = PropsOpIdle
    /\ collection = CollIdle /\ collOp = CollOpIdle /\ live = {}
    /\ plane = PlaneIdle /\ planeOp = PlaneOpIdle
    /\ generators = GeneratorsIdle /\ issued = <<>> /\ idOp = IdOpIdle
    /\ shells \in ShellTables
    /\ \E outer \in ShellIds :
        \/ body = BodyNew(outer) /\ bodyOp = [op |-> "new", ref |-> 0, ret |-> TRUE]
        \/ body = new_solid(outer) /\ bodyOp = [op |-> "new_solid", ref |-> 0, ret |-> TRUE]
        \/ \E inner \in SeqsUpTo(ShellIds, MaxInnerShells) :
            body = new_hollow(outer, inner) /\ bodyOp = [op |-> "new_hollow", ref |-> 0, ret |-> TRUE]

AddInnerShell ==
    /\ bodyOp.op # "idle"
    /\ Len(body.inner_shells) < MaxInnerShells
    /\ \E ref \in ShellIds :
        /\ body' = add_inner_shell(body, ref)
        /\ bodyOp' = [op |-> "add_inner_shell", ref |-> ref, ret |-> TRUE]
    /\ UNCHANGED <<shells, shellVars, primVars, propsVars, collVars, planeVars, idVars>>

RemoveInnerShell ==
    /\ bodyOp.op # "idle"
    /\ \E ref \in ShellIds :
        /\ body' = remove_inner_shell(body, ref)
        /\ bodyOp' = [op |-> "remove_inner_shell", ref |-> ref,
                       ret |-> remove_inner_shell_ret(body, ref)]
    /\ UNCHANGED <<shells, shellVars, primVars, propsVars, collVars, planeVars, idVars>>

ComputeBodyType ==
    /\ bodyOp.op # "idle"
    /\ body' = compute_body_type(body, shells)
    /\ bodyOp' = [op |-> "compute_body_type", ref |-> 0, ret |-> TRUE]
    /\ UNCHANGED <<shells, shellVars, primVars, propsVars, collVars, planeVars, idVars>>

\* The owner of the shell table recomputes a stored shell's closure
\* (Shell::compute_properties assigns is_closed)
ShellClosureChanges ==
    /\ \E ref \in ShellIds, closed \in BOOLEAN :
        /\ shells[ref] # None
        /\ shells[ref][1].is_closed # closed
        /\ shells' = [shells EXCEPT ![ref] = Some([shells[ref][1] EXCEPT !.is_closed = closed])]
        /\ bodyOp' = [op |-> "shell_closure_changes", ref |-> ref, ret |-> TRUE]
    /\ UNCHANGED <<body, shellVars, primVars, propsVars, collVars, planeVars, idVars>>

\* Body::is_valid takes &self and &HashMap: it returns its verdict and assigns nothing
IsValid ==
    /\ bodyOp' = [op |-> "is_valid", ref |-> 0, ret |-> is_valid(body, shells)]
    /\ UNCHANGED <<body, shells, shellVars, primVars, propsVars, collVars, planeVars, idVars>>

NextBody ==
    AddInnerShell \/ RemoveInnerShell \/ ComputeBodyType \/ ShellClosureChanges \/ IsValid

----------------------------------------------------------------------------
(* Primitive generators  (model/primitives/platonic.rs, model/primitives/basic.rs) *)

MaxSize == 3
MaxSegments == 5

\* Dimension arguments: even lengths, so that halving them is exact
Sizes == {2 * k : k \in 1..MaxSize}
SegmentCounts == 0..MaxSegments

\* Vector3 values.  A coordinate triple is exact (Cartesian), a triple of multiples of
\* an irrational unit derived from the argument (Scaled), or a rim point
\* (radius*cos(2*pi*i/n), radius*sin(2*pi*i/n), z) kept in polar form (Rim).
Cartesian(x, y, z) == [form |-> "xyz", at |-> <<x, y, z>>]
Scaled(unit, arg, x, y, z) == [form |-> unit, of |-> arg, at |-> <<x, y, z>>]
Rim(radius, i, n, z) == [form |-> "rim", radius |-> radius, i |-> i, n |-> n, z |-> z]

\* Vertex, Edge, EdgeLoop and Face (model/brep/topology/*.rs)
Vertex(id, position) == [id |-> id, position |-> position]
Edge(id, start, end) == [id |-> id, vertices |-> <<start, end>>]
EdgeLoop(id, edges) == [id |-> id, edges |-> edges]
Face(id, edge_loops) == [id |-> id, edge_loops |-> edge_loops]

PrimitiveResult(vertices, edges, edge_loops, faces) ==
    [vertices |-> vertices, edges |-> edges, edge_loops |-> edge_loops, faces |-> faces]

\* The elements pushed by `for i in 0..n { push(f[i]) }`, in order
ForEach(n, f) == [k \in 1..n |-> f[k - 1]]

cube_edges ==
    << Edge(0, 0, 1), Edge(1, 1, 2), Edge(2, 2, 3), Edge(3, 3, 0),
       Edge(4, 4, 5), Edge(5, 5, 6), Edge(6, 6, 7), Edge(7, 7, 4),
       Edge(8, 0, 4), Edge(9, 1, 5), Edge(10, 2, 6), Edge(11, 3, 7) >>

cube_vertices(size) ==
    LET half == size \div 2 IN
    << Vertex(0, Cartesian(-half, -half, -half)), Vertex(1, Cartesian(half, -half, -half)),
       Vertex(2, Cartesian(half, half, -half)),   Vertex(3, Cartesian(-half, half, -half)),
       Vertex(4, Cartesian(-half, -half, half)),  Vertex(5, Cartesian(half, -half, half)),
       Vertex(6, Cartesian(half, half, half)),    Vertex(7, Cartesian(-half, half, half)) >>

\* the front loop naming vertical edge 11 in place of edge 8
cube_edge_loops_WrongFront ==
    << EdgeLoop(0, <<<<0, 1, 2, 3>>>>),   EdgeLoop(1, <<<<4, 5, 6, 7>>>>),
       EdgeLoop(2, <<<<0, 9, 4, 11>>>>),  EdgeLoop(3, <<<<2, 11, 6, 10>>>>),
       EdgeLoop(4, <<<<3, 11, 7, 8>>>>),  EdgeLoop(5, <<<<1, 10, 5, 9>>>>) >>

cube_edge_loops ==
    << EdgeLoop(0, <<<<0, 1, 2, 3>>>>),   EdgeLoop(1, <<<<4, 5, 6, 7>>>>),
       EdgeLoop(2, <<<<0, 9, 4, 8>>>>),   EdgeLoop(3, <<<<2, 11, 6, 10>>>>),
       EdgeLoop(4, <<<<3, 11, 7, 8>>>>),  EdgeLoop(5, <<<<1, 10, 5, 9>>>>) >>

cube_faces ==
    << Face(0, <<0>>), Face(1, <<1>>), Face(2, <<2>>),
       Face(3, <<3>>), Face(4, <<4>>), Face(5, <<5>>) >>

\* cube
cube(size) == PrimitiveResult(cube_vertices(size), cube_edges, cube_edge_loops, cube_faces)

box_vertices(width, height, depth) ==
    LET half_w == width \div 2
        half_h == height \div 2
        half_d == depth \div 2
    IN  << Vertex(0, Cartesian(-half_w, -half_h, -half_d)),
           Vertex(1, Cartesian(half_w, -half_h, -half_d)),
           Vertex(2, Cartesian(half_w, half_h, -half_d)),
           Vertex(3, Cartesian(-half_w, half_h, -half_d)),
           Vertex(4, Cartesian(-half_w, -half_h, half_d)),
           Vertex(5, Cartesian(half_w, -half_h, half_d)),
           Vertex(6, Cartesian(half_w, half_h, half_d)),
           Vertex(7, Cartesian(-half_w, half_h, half_d)) >>

box_edges ==
    << Edge(0, 0, 1), Edge(1, 1, 2), Edge(2, 2, 3), Edge(3, 3, 0),
       Edge(4, 4, 5), Edge(5, 5, 6), Edge(6, 6, 7), Edge(7, 7, 4),
       Edge(8, 0, 4), Edge(9, 1, 5), Edge(10, 2, 6), Edge(11, 3, 7) >>

box_edge_loops ==
    << EdgeLoop(0, <<<<0, 1, 2, 3>>>>),   EdgeLoop(1, <<<<4, 5, 6, 7>>>>),
       EdgeLoop(2, <<<<0, 9, 4, 8>>>>),   EdgeLoop(3, <<<<2, 11, 6, 10>>>>),
       EdgeLoop(4, <<<<3, 11, 7, 8>>>>),  EdgeLoop(5, <<<<1, 10, 5, 9>>>>) >>

box_faces ==
    << Face(0, <<0>>), Face(1, <<1>>), Face(2, <<2>>),
       Face(3, <<3>>), Face(4, <<4>>), Face(5, <<5>>) >>

\* box_primitive
box_primitive(width, height, depth) ==
    PrimitiveResult(box_vertices(width, height, depth), box_edges, box_edge_loops, box_faces)

tetrahedron_vertices(edge_length) ==
    LET A(x, y, z) == Scaled("edge_length/(2*sqrt(2)/sqrt(3))", edge_length, x, y, z) IN
    << Vertex(0, A(1, 1, 1)), Vertex(1, A(-1, -1, 1)),
       Vertex(2, A(-1, 1, -1)), Vertex(3, A(1, -1, -1)) >>

tetrahedron_edges ==
    << Edge(0, 0, 1), Edge(1, 0, 2), Edge(2, 0, 3),
       Edge(3, 1, 2), Edge(4, 1, 3), Edge(5, 2, 3) >>

tetrahedron_edge_loops ==
    << EdgeLoop(0, <<<<0, 3, 1>>>>), EdgeLoop(1, <<<<0, 4, 2>>>>),
       EdgeLoop(2, <<<<1, 5, 2>>>>), EdgeLoop(3, <<<<3, 4, 5>>>>) >>

tetrahedron_faces == << Face(0, <<0>>), Face(1, <<1>>), Face(2, <<2>>), Face(3, <<3>>) >>

\* tetrahedron
tetrahedron(edge_length) ==
    PrimitiveResult(tetrahedron_vertices(edge_length), tetrahedron_edges,
                    tetrahedron_edge_loops, tetrahedron_faces)

octahedron_vertices(edge_length) ==
    LET A(x, y, z) == Scaled("edge_length/sqrt(2)", edge_length, x, y, z) IN
    << Vertex(0, A(1, 0, 0)), Vertex(1, A(-1, 0, 0)), Vertex(2, A(0, 1, 0)),
       Vertex(3, A(0, -1, 0)), Vertex(4, A(0, 0, 1)), Vertex(5, A(0, 0, -1)) >>

octahedron_edges ==
    << Edge(0, 0, 2), Edge(1, 2, 1), Edge(2, 1, 3), Edge(3, 3, 0),
       Edge(4, 0, 4), Edge(5, 2, 4), Edge(6, 1, 4), Edge(7, 3, 4),
       Edge(8, 0, 5), Edge(9, 2, 5), Edge(10, 1, 5), Edge(11, 3, 5) >>

octahedron_edge_loops ==
    << EdgeLoop(0, <<<<0, 5, 4>>>>),  EdgeLoop(1, <<<<5, 1, 6>>>>),
       EdgeLoop(2, <<<<1, 2, 6>>>>),  EdgeLoop(3, <<<<2, 0, 4>>>>),
       EdgeLoop(4, <<<<3, 7, 8>>>>),  EdgeLoop(5, <<<<7, 6, 10>>>>),
       EdgeLoop(6, <<<<6, 9, 10>>>>), EdgeLoop(7, <<<<9, 3, 11>>>>) >>

octahedron_faces == ForEach(8, [i \in 0..7 |-> Face(i, <<i>>)])

\* octahedron
octahedron(edge_length) ==
    PrimitiveResult(octahedron_vertices(edge_length), octahedron_edges, octahedron_edge_loops,
                    octahedron_faces)

\* cylinder: the vertices, the rim loop pushing a bottom and a top vertex in turn
cylinder_vertices(radius, height, segments) ==
    LET half_height == height \div 2 IN
    [k \in 1..(2 * segments) |->
        LET i == (k - 1) \div 2 IN
        IF (k - 1) % 2 = 0
        THEN Vertex(i, Rim(radius, i, segments, -half_height))
        ELSE Vertex(i + segments, Rim(radius, i, segments, half_height))]
    \o << Vertex(segments * 2, Cartesian(0, 0, -half_height)),
          Vertex(segments * 2 + 1, Cartesian(0, 0, half_height)) >>

\* One `for i in 0..n` loop pushing Edge { id: edge_id, vertices: v[i] } and counting
\* edge_id up from the number of edges pushed before
PushEdges(edges, n, v) ==
    edges \o [k \in 1..n |-> Edge(Len(edges) + (k - 1), v[k - 1][1], v[k - 1][2])]

cylinder_edges(segments) ==
    LET I == 0..(segments - 1)
        bottom   == PushEdges(<<>>, segments, [i \in I |-> <<i, (i + 1) % segments>>])
        top      == PushEdges(bottom, segments,
                              [i \in I |-> <<i + segments, ((i + 1) % segments) + segments>>])
        vertical == PushEdges(top, segments, [i \in I |-> <<i, i + segments>>])
        radial_b == PushEdges(vertical, segments, [i \in I |-> <<segments * 2, i>>])
    IN  PushEdges(radial_b, segments, [i \in I |-> <<segments * 2 + 1, i + segments>>])

\* cylinder_edge_loops whose side loops leave out the top edge
cylinder_edge_loops_SideTriangles(segments) ==
    ForEach(segments, [i \in 0..(segments - 1) |->
        EdgeLoop(i, << <<i, segments * 3 + i,
                         segments * 3 + ((i + segments - 1) % segments)>> >>)])
    \o ForEach(segments, [i \in 0..(segments - 1) |->
        EdgeLoop(segments + i, << <<segments + i, segments * 4 + i,
                                    segments * 4 + ((i + segments - 1) % segments)>> >>)])
    \o ForEach(segments, [i \in 0..(segments - 1) |->
        EdgeLoop(segments * 2 + i, << <<i, segments * 2 + ((i + 1) % segments),
                                        segments * 2 + i>> >>)])

cylinder_edge_loops(segments) ==
    ForEach(segments, [i \in 0..(segments - 1) |->
        EdgeLoop(i, << <<i, segments * 3 + i,
                         segments * 3 + ((i + segments - 1) % segments)>> >>)])
    \o ForEach(segments, [i \in 0..(segments - 1) |->
        EdgeLoop(segments + i, << <<segments + i, segments * 4 + i,
                                    segments * 4 + ((i + segments - 1) % segments)>> >>)])
    \o ForEach(segments, [i \in 0..(segments - 1) |->
        EdgeLoop(segments * 2 + i, << <<i, segments * 2 + ((i + 1) % segments),
                                        segments + i, segments * 2 + i>> >>)])

cylinder_faces(segments) ==
    ForEach(segments, [i \in 0..(segments - 1) |-> Face(i, <<i>>)])
    \o ForEach(segments, [i \in 0..(segments - 1) |-> Face(segments + i, <<segments + i>>)])
    \o ForEach(segments,
               [i \in 0..(segments - 1) |-> Face(segments * 2 + i, <<segments * 2 + i>>)])

\* cylinder clamping a segment count below 3 to 3
cylinder_Clamped(radius, height, segments) ==
    LET n == IF segments < 3 THEN 3 ELSE segments IN
    Some(PrimitiveResult(cylinder_vertices(radius, height, n), cylinder_edges(n),
                         cylinder_edge_loops(n), cylinder_faces(n)))

\* cylinder
cylinder(radius, height, segments) ==
    IF segments < 3
    THEN None
    ELSE Some(PrimitiveResult(cylinder_vertices(radius, height, segments),
                              cylinder_edges(segments), cylinder_edge_loops(segments),
                              cylinder_faces(segments)))

cone_vertices(base_radius, height, segments) ==
    ForEach(segments, [i \in 0..(segments - 1) |-> Vertex(i, Rim(base_radius, i, segments, 0))])
    \o << Vertex(segments, Cartesian(0, 0, 0)), Vertex(segments + 1, Cartesian(0, 0, height)) >>

\* the apex edges numbered one too high
cone_edges_ApexIdsShifted(segments) ==
    ForEach(segments, [i \in 0..(segments - 1) |-> Edge(i, i, (i + 1) % segments)])
    \o ForEach(segments, [i \in 0..(segments - 1) |-> Edge(segments + i, segments, i)])
    \o ForEach(segments, [i \in 0..(segments - 1) |-> Edge(segments * 2 + i + 1, i, segments + 1)])

cone_edges(segments) ==
    ForEach(segments, [i \in 0..(segments - 1) |-> Edge(i, i, (i + 1) % segments)])
    \o ForEach(segments, [i \in 0..(segments - 1) |-> Edge(segments + i, segments, i)])
    \o ForEach(segments, [i \in 0..(segments - 1) |-> Edge(segments * 2 + i, i, segments + 1)])

cone_edge_loops(segments) ==
    ForEach(segments, [i \in 0..(segments - 1) |->
        EdgeLoop(i, << <<i, segments + i, segments + ((i + segments - 1) % segments)>> >>)])
    \o ForEach(segments, [i \in 0..(segments - 1) |->
        EdgeLoop(segments + i, << <<i, segments * 2 + ((i + 1) % segments),
                                    segments * 2 + i>> >>)])

cone_faces(segments) ==
    ForEach(segments, [i \in 0..(segments - 1) |-> Face(i, <<i>>)])
    \o ForEach(segments, [i \in 0..(segments - 1) |-> Face(segments + i, <<segments + i>>)])

\* cone
cone(base_radius, height, segments) ==
    IF segments < 3
    THEN None
    ELSE Some(PrimitiveResult(cone_vertices(base_radius, height, segments),
                              cone_edges(segments), cone_edge_loops(segments),
                              cone_faces(segments)))

\* A generator call: the generators that cannot fail hand their bundle back as it is,
\* recorded here as Some(bundle)
Call(gen, args, result) == [gen |-> gen, args |-> args, result |-> result]

InitPrim ==
    /\ shell = ShellIdle /\ edge_face_map = NoMap /\ shellOp = ShellOpIdle
    /\ body = BodyIdle /\ shells = <<>> /\ bodyOp = BodyOpIdle
    /\ props = PropsIdle /\ propsOp = PropsOpIdle
    /\ collection = CollIdle /\ collOp = CollOpIdle /\ live = {}
    /\ plane = PlaneIdle /\ planeOp = PlaneOpIdle
    /\ generators = GeneratorsIdle /\ issued = <<>> /\ idOp = IdOpIdle
    /\ prim = PrimIdle

CallCube ==
    /\ \E size \in Sizes : prim' = Call("cube", <<size>>, Some(cube(size)))
    /\ UNCHANGED <<shellVars, bodyVars, propsVars, collVars, planeVars, idVars>>

CallBoxPrimitive ==
    /\ \E w \in Sizes, h \in Sizes, d \in Sizes :
        prim' = Call("box_primitive", <<w, h, d>>, Some(box_primitive(w, h, d)))
    /\ UNCHANGED <<shellVars, bodyVars, propsVars, collVars, planeVars, idVars>>

CallTetrahedron ==
    /\ \E edge_length \in Sizes :
        prim' = Call("tetrahedron", <<edge_length>>, Some(tetrahedron(edge_length)))
    /\ UNCHANGED <<shellVars, bodyVars, propsVars, collVars, planeVars, idVars>>

CallOctahedron ==
    /\ \E edge_length \in Sizes :
        prim' = Call("octahedron", <<edge_length>>, Some(octahedron(edge_length)))
    /\ UNCHANGED <<shellVars, bodyVars, propsVars, collVars, planeVars, idVars>>

CallCylinder ==
    /\ \E r \in Sizes, h \in Sizes, segments \in SegmentCounts :
        prim' = Call("cylinder", <<r, h, segments>>, cylinder(r, h, segments))
    /\ UNCHANGED <<shellVars, bodyVars, propsVars, collVars, planeVars, idVars>>

CallCone ==
    /\ \E r \in Sizes, h \in Sizes, segments \in SegmentCounts :
        prim' = Call("cone", <<r, h, segments>>, cone(r, h, segments))
    /\ UNCHANGED <<shellVars, bodyVars, propsVars, collVars, planeVars, idVars>>

NextPrim ==
    CallCube \/ CallBoxPrimitive \/ CallTetrahedron \/ CallOctahedron \/ CallCylinder \/ CallCone

----------------------------------------------------------------------------
(* Material and BodyProperties  (model/material.rs, model/body_properties.rs) *)

NumBodies == 3
MaxVolume == 2
MaxArea == 1

\* BodyId values
BodyIds == 1..NumBodies

\* f64 arguments.  Volumes are counted in thousandths of a cubic metre, so that a density
\* in kg/m3 times a volume is a mass in thousandths of a kilogram (7850 * 1 stands for
\* 7850.0 * 0.001 = 7.85); the products are exact, rounding is not modelled.
Volumes == 0..MaxVolume
Areas == 0..MaxArea
CentersOfMass == {<<0, 0, 0>>, <<1, 0, 0>>}
Names == {"part"}
Layers == {"layer"}

\* Material: of its fields BodyProperties reads name, density and cost_per_volume
Material(name, density, cost_per_volume) ==
    [name |-> name, density |-> density, cost_per_volume |-> cost_per_volume]

\* Material::default
MaterialDefault == Material("Default", 1000, None)

\* The materials handed to BodyProperties: the default, steel and a priced aluminum
Materials ==
    {MaterialDefault, Material("Steel", 7850, None), Material("Aluminum", 2700, Some(5400))}

\* Material::calculate_mass
material_calculate_mass(m, volume_m3) == m.density * volume_m3

\* Material::calculate_cost
calculate_cost(m, volume_m3) ==
    IF m.cost_per_volume # None THEN Some(m.cost_per_volume[1] * volume_m3) ELSE None

\* BodyProperties::new
BodyPropertiesNew(body_id) ==
    [body_id |-> body_id, material |-> MaterialDefault,
     volume |-> None, surface_area |-> None, mass |-> None, center_of_mass |-> None,
     name |-> None, visible |-> TRUE, selected |-> FALSE, layer |-> None]

\* BodyProperties::new_with_material
new_with_material(body_id, material) ==
    [body_id |-> body_id, material |-> material,
     volume |-> None, surface_area |-> None, mass |-> None, center_of_mass |-> None,
     name |-> None, visible |-> TRUE, selected |-> FALSE, layer |-> None]

\* invalidate_cache leaving the surface area and the centre of mass in place
PropsInvalidateCache_KeepsArea(p) == [p EXCEPT !.volume = None, !.mass = None]

\* BodyProperties::invalidate_cache
PropsInvalidateCache(p) ==
    [p EXCEPT !.volume = None, !.surface_area = None, !.mass = None, !.center_of_mass = None]

\* set_material that keeps the cached values
set_material_KeepsCache(p, material) == [p EXCEPT !.material = material]

\* BodyProperties::set_material
set_material(p, material) == PropsInvalidateCache([p EXCEPT !.material = material])

\* BodyProperties::volume
volume(p) == p.volume

\* set_volume leaving the mass to a later recomputation
set_volume_LazyMass(p, v) == [p EXCEPT !.volume = Some(v)]

\* BodyProperties::set_volume
set_volume(p, v) ==
    [p EXCEPT !.volume = Some(v), !.mass = Some(material_calculate_mass(p.material, v))]

\* BodyProperties::surface_area
surface_area(p) == p.surface_area

\* BodyProperties::set_surface_area
set_surface_area(p, area) == [p EXCEPT !.surface_area = Some(area)]

\* BodyProperties::mass
mass(p) == p.mass

\* BodyProperties::center_of_mass
center_of_mass(p) == p.center_of_mass

\* BodyProperties::set_center_of_mass
set_center_of_mass(p, center) == [p EXCEPT !.center_of_mass = Some(center)]

\* calculate_mass reporting a missing volume as a mass of zero
calculate_mass_ZeroWhenMissing(p) ==
    IF p.volume # None THEN Some(material_calculate_mass(p.material, p.volume[1])) ELSE Some(0)

\* BodyProperties::calculate_mass
calculate_mass(p) ==
    IF p.volume # None THEN Some(material_calculate_mass(p.material, p.volume[1])) ELSE None

\* BodyProperties::estimated_cost
estimated_cost(p) ==
    IF p.volume # None THEN calculate_cost(p.material, p.volume[1]) ELSE None

\* BodyProperties::set_name
set_name(p, name) == [p EXCEPT !.name = Some(name)]

\* BodyProperties::set_visible
set_visible(p, visible) == [p EXCEPT !.visible = visible]

\* BodyProperties::set_selected
set_selected(p, selected) == [p EXCEPT !.selected = selected]

\* BodyProperties::set_layer
set_layer(p, layer) == [p EXCEPT !.layer = Some(layer)]

\* A call on the BodyProperties: its name, arguments and return value, and (history) the
\* setters of cached scalars called since creation or since the last invalidation, and
\* the setters whose values this call invalidated
PropsCall(op, args, ret, since, cleared) ==
    [op |-> op, args |-> args, ret |-> ret, since |-> since, cleared |-> cleared]

InitProps ==
    /\ shell = ShellIdle /\ edge_face_map = NoMap /\ shellOp = ShellOpIdle
    /\ body = BodyIdle /\ shells = <<>> /\ bodyOp = BodyOpIdle /\ prim = PrimIdle
    /\ collection = CollIdle /\ collOp = CollOpIdle /\ live = {}
    /\ plane = PlaneIdle /\ planeOp = PlaneOpIdle
    /\ generators = GeneratorsIdle /\ issued = <<>> /\ idOp = IdOpIdle
    /\ \E body_id \in BodyIds :
        \/ props = BodyPropertiesNew(body_id) /\ propsOp = PropsCall("new", <<body_id>>, None, {}, {})
        \/ \E m \in Materials :
            /\ props = new_with_material(body_id, m)
            /\ propsOp = PropsCall("new_with_material", <<body_id, m>>, None, {}, {})

SetMaterial ==
    /\ \E m \in Materials :
        /\ props' = set_material(props, m)
        /\ propsOp' = PropsCall("set_material", <<m>>, None, {}, propsOp.since)
    /\ UNCHANGED <<shellVars, bodyVars, primVars, collVars, planeVars, idVars>>

SetVolume ==
    /\ \E v \in Volumes :
        /\ props' = set_volume(props, v)
        /\ propsOp' = PropsCall("set_volume", <<v>>, None, propsOp.since \cup {"set_volume"}, {})
    /\ UNCHANGED <<shellVars, bodyVars, primVars, collVars, planeVars, idVars>>

SetSurfaceArea ==
    /\ \E area \in Areas :
        /\ props' = set_surface_area(props, area)
        /\ propsOp' = PropsCall("set_surface_area", <<area>>, None,
                                propsOp.since \cup {"set_surface_area"}, {})
    /\ UNCHANGED <<shellVars, bodyVars, primVars, collVars, planeVars, idVars>>

SetCenterOfMass ==
    /\ \E center \in CentersOfMass :
        /\ props' = set_center_of_mass(props, center)
        /\ propsOp' = PropsCall("set_center_of_mass", <<center>>, None,
                                propsOp.since \cup {"set_center_of_mass"}, {})
    /\ UNCHANGED <<shellVars, bodyVars, primVars, collVars, planeVars, idVars>>

InvalidateCache ==
    /\ props' = PropsInvalidateCache(props)
    /\ propsOp' = PropsCall("invalidate_cache", <<>>, None, {}, propsOp.since)
    /\ UNCHANGED <<shellVars, bodyVars, primVars, collVars, planeVars, idVars>>

CalculateMass ==
    /\ propsOp' = PropsCall("calculate_mass", <<>>, calculate_mass(props), propsOp.since, {})
    /\ UNCHANGED <<props, shellVars, bodyVars, primVars, collVars, planeVars, idVars>>

EstimatedCost ==
    /\ propsOp' = PropsCall("estimated_cost", <<>>, estimated_cost(props), propsOp.since, {})
    /\ UNCHANGED <<props, shellVars, bodyVars, primVars, collVars, planeVars, idVars>>

SetName ==
    /\ \E name \in Names :
        /\ props' = set_name(props, name)
        /\ propsOp' = PropsCall("set_name", <<name>>, None, propsOp.since, {})
    /\ UNCHANGED <<shellVars, bodyVars, primVars, collVars, planeVars, idVars>>

SetVisible ==
    /\ \E visible \in BOOLEAN :
        /\ props' = set_visible(props, visible)
        /\ propsOp' = PropsCall("set_visible", <<visible>>, None, propsOp.since, {})
    /\ UNCHANGED <<shellVars, bodyVars, primVars, collVars, planeVars, idVars>>

SetSelected ==
    /\ \E selected \in BOOLEAN :
        /\ props' = set_selected(props, selected)
        /\ propsOp' = PropsCall("set_selected", <<selected>>, None, propsOp.since, {})
    /\ UNCHANGED <<shellVars, bodyVars, primVars, collVars, planeVars, idVars>>

SetLayer ==
    /\ \E layer \in Layers :
        /\ props' = set_layer(props, layer)
        /\ propsOp' = PropsCall("set_layer", <<layer>>, None, propsOp.since, {})
    /\ UNCHANGED <<shellVars, bodyVars, primVars, collVars, planeVars, idVars>>

NextProps ==
    SetMaterial \/ SetVolume \/ SetSurfaceArea \/ SetCenterOfMass \/ InvalidateCache
    \/ CalculateMass \/ EstimatedCost \/ SetName \/ SetVisible \/ SetSelected \/ SetLayer

----------------------------------------------------------------------------
(* BodyPropertiesCollection  (model/body_properties.rs) *)

\* HashMap::new: no BodyId is a key.  The map gives each BodyId the Option of its entry.
CollectionNew == [body_id \in BodyIds |-> None]

\* HashMap::insert
Insert(map, key, value) == [map EXCEPT ![key] = Some(value)]

\* The BodyProperties values handed to add_body_properties for one body id
PropertiesFor(body_id) ==
    {BodyPropertiesNew(body_id), set_volume(BodyPropertiesNew(body_id), 1)}
    \cup {new_with_material(body_id, m) : m \in Materials}

\* add_body_properties keeping the entry an id already has
add_body_properties_KeepsEarlier(c, properties) ==
    IF c[properties.body_id] # None THEN c ELSE Insert(c, properties.body_id, properties)

\* BodyPropertiesCollection::add_body_properties
add_body_properties(c, properties) == Insert(c, properties.body_id, properties)

\* BodyPropertiesCollection::create_body_properties
create_body_properties(c, body_id) == Insert(c, body_id, BodyPropertiesNew(body_id))

\* BodyPropertiesCollection::create_body_properties_with_material
create_body_properties_with_material(c, body_id, material) ==
    Insert(c, body_id, new_with_material(body_id, material))

\* BodyPropertiesCollection::get_properties
get_properties(c, body_id) == c[body_id]

\* BodyPropertiesCollection::remove_properties: the collection afterwards
remove_properties(c, body_id) == [c EXCEPT ![body_id] = None]

\* BodyPropertiesCollection::remove_properties: the value returned
remove_properties_ret(c, body_id) == c[body_id]

\* BodyPropertiesCollection::clear
clear(c) == [body_id \in BodyIds |-> None]

\* BodyPropertiesCollection::count
count(c) == Cardinality({body_id \in BodyIds : c[body_id] # None})

\* A call on the collection: its name, arguments and return value
CollCall(op, args, ret) == [op |-> op, args |-> args, ret |-> ret]

InitColl ==
    /\ shell = ShellIdle /\ edge_face_map = NoMap /\ shellOp = ShellOpIdle
    /\ body = BodyIdle /\ shells = <<>> /\ bodyOp = BodyOpIdle /\ prim = PrimIdle
    /\ props = PropsIdle /\ propsOp = PropsOpIdle
    /\ plane = PlaneIdle /\ planeOp = PlaneOpIdle
    /\ generators = GeneratorsIdle /\ issued = <<>> /\ idOp = IdOpIdle
    /\ collection = CollectionNew
    /\ collOp = CollCall("new", <<>>, None)
    /\ live = {}

AddBodyProperties ==
    /\ \E body_id \in BodyIds : \E properties \in PropertiesFor(body_id) :
        /\ collection' = add_body_properties(collection, properties)
        /\ collOp' = CollCall("add_body_properties", <<body_id, properties>>, None)
        /\ live' = live \cup {body_id}
    /\ UNCHANGED <<shellVars, bodyVars, primVars, propsVars, planeVars, idVars>>

CreateBodyProperties ==
    /\ \E body_id \in BodyIds :
        /\ collection' = create_body_properties(collection, body_id)
        /\ collOp' = CollCall("create_body_properties", <<body_id, BodyPropertiesNew(body_id)>>,
                              get_properties(create_body_properties(collection, body_id), body_id))
        /\ live' = live \cup {body_id}
    /\ UNCHANGED <<shellVars, bodyVars, primVars, propsVars, planeVars, idVars>>

CreateBodyPropertiesWithMaterial ==
    /\ \E body_id \in BodyIds, m \in Materials :
        /\ collection' = create_body_properties_with_material(collection, body_id, m)
        /\ collOp' = CollCall("create_body_properties_with_material",
                              <<body_id, new_with_material(body_id, m)>>,
                              get_properties(
                                  create_body_properties_with_material(collection, body_id, m),
                                  body_id))
        /\ live' = live \cup {body_id}
    /\ UNCHANGED <<shellVars, bodyVars, primVars, propsVars, planeVars, idVars>>

GetProperties ==
    /\ \E body_id \in BodyIds :
        collOp' = CollCall("get_properties", <<body_id>>, get_properties(collection, body_id))
    /\ UNCHANGED <<collection, live, shellVars, bodyVars, primVars, propsVars, planeVars, idVars>>

RemoveProperties ==
    /\ \E body_id \in BodyIds :
        /\ collection' = remove_properties(collection, body_id)
        /\ collOp' = CollCall("remove_properties", <<body_id>>,
                              remove_properties_ret(collection, body_id))
        /\ live' = live \ {body_id}
    /\ UNCHANGED <<shellVars, bodyVars, primVars, propsVars, planeVars, idVars>>

Clear ==
    /\ collection' = clear(collection)
    /\ collOp' = CollCall("clear", <<>>, None)
    /\ live' = {}
    /\ UNCHANGED <<shellVars, bodyVars, primVars, propsVars, planeVars, idVars>>

NextColl ==
    AddBodyProperties \/ CreateBodyProperties \/ CreateBodyPropertiesWithMaterial
    \/ GetProperties \/ RemoveProperties \/ Clear

----------------------------------------------------------------------------
(* f64, Vector3 and Point3 as used by the planes  (model/geometry/plane.rs) *)

\* An f64 is modelled as an exact fraction <<numerator, denominator>> in lowest terms with
\* a positive denominator; <<0, 0>> is NaN.  Arithmetic is exact: rounding is not
\* modelled, and the inputs are chosen so that every square root taken is rational.
\*
\* Units.  The components of a normal or direction argument count multiples of
\* 1e-10 / Eps, and the coordinates of a point argument (and with them offsets, d and
\* distances) count multiples of the square root of that, so that a cross product of
\* point differences is again in multiples of 1e-10 / Eps: for such a vector
\* `norm() < 1e-10` is `norm < Eps`.  A normalised vector is a plain number.
Eps == 2

Abs(k) == IF k < 0 THEN -k ELSE k

RECURSIVE Gcd(_, _)
Gcd(a, b) == IF b = 0 THEN a ELSE Gcd(b, a % b)

NaN == <<0, 0>>
IsNaN(a) == a[2] = 0

\* The fraction n / d in lowest terms
Real(n, d) ==
    IF d = 0
    THEN NaN
    ELSE LET g == Gcd(Abs(n), Abs(d))
             sign == IF d < 0 THEN -1 ELSE 1
         IN  <<(sign * n) \div g, (sign * d) \div g>>

Whole(k) == <<k, 1>>

FNeg(a) == IF IsNaN(a) THEN NaN ELSE <<-a[1], a[2]>>
FAdd(a, b) == IF IsNaN(a) \/ IsNaN(b) THEN NaN ELSE Real(a[1] * b[2] + b[1] * a[2], a[2] * b[2])
FSub(a, b) == FAdd(a, FNeg(b))
FMul(a, b) == IF IsNaN(a) \/ IsNaN(b) THEN NaN ELSE Real(a[1] * b[1], a[2] * b[2])

\* a / b.  The planes divide by a norm only: a zero divisor meets zero dividends (0.0 / 0.0)
FDiv(a, b) == IF IsNaN(a) \/ IsNaN(b) \/ b[1] = 0 THEN NaN ELSE Real(a[1] * b[2], a[2] * b[1])

\* a < b, false when either is NaN
FLess(a, b) == ~IsNaN(a) /\ ~IsNaN(b) /\ a[1] * b[2] < b[1] * a[2]

\* a == b, false when either is NaN
FEq(a, b) == ~IsNaN(a) /\ ~IsNaN(b) /\ a = b

FAbs(a) == IF IsNaN(a) THEN NaN ELSE <<Abs(a[1]), a[2]>>

IsSquare(k) == \E r \in 0..k : r * r = k
ISqrt(k) == CHOOSE r \in 0..k : r * r = k

\* f64::sqrt of a fraction whose root is rational
FSqrt(a) == IF IsNaN(a) THEN NaN ELSE <<ISqrt(a[1]), ISqrt(a[2])>>

\* plain a < 1e-10: a fraction n / d of the model has d far below 10^10, so it is below
\* 1e-10 exactly when n <= 0
BelowTolerance(a) == ~IsNaN(a) /\ a[1] <= 0

\* Vector3::new / Point3::new from integer components
Vec(v) == <<Whole(v[1]), Whole(v[2]), Whole(v[3])>>

VNeg(v) == <<FNeg(v[1]), FNeg(v[2]), FNeg(v[3])>>
VAdd(v, w) == <<FAdd(v[1], w[1]), FAdd(v[2], w[2]), FAdd(v[3], w[3])>>
VSub(v, w) == <<FSub(v[1], w[1]), FSub(v[2], w[2]), FSub(v[3], w[3])>>
VScale(v, a) == <<FMul(v[1], a), FMul(v[2], a), FMul(v[3], a)>>

\* Vector3::dot
Dot(v, w) == FAdd(FAdd(FMul(v[1], w[1]), FMul(v[2], w[2])), FMul(v[3], w[3]))

\* Vector3::cross
Cross(v, w) ==
    << FSub(FMul(v[2], w[3]), FMul(v[3], w[2])),
       FSub(FMul(v[3], w[1]), FMul(v[1], w[3])),
       FSub(FMul(v[1], w[2]), FMul(v[2], w[1])) >>

\* The norm of v is rational (or NaN)
ExactNorm(v) ==
    LET sq == Dot(v, v) IN IsNaN(sq) \/ (IsSquare(sq[1]) /\ IsSquare(sq[2]))

\* Vector3::norm
Norm(v) == FSqrt(Dot(v, v))

\* Vector3::normalize: the zero vector becomes (NaN, NaN, NaN)
Normalize(v) ==
    LET n == Norm(v) IN <<FDiv(v[1], n), FDiv(v[2], n), FDiv(v[3], n)>>

\* Angles are whole quarter turns (multiples of pi/2), whose cosine and sine are exact
Cos(angle) == Whole(<<1, 0, -1, 0>>[(angle % 4) + 1])
Sin(angle) == Whole(<<0, 1, 0, -1>>[(angle % 4) + 1])

\* Rotation3::from_axis_angle(axis, angle) * v for a unit axis
Rotate(axis, angle, v) ==
    VAdd(VAdd(VScale(v, Cos(angle)), VScale(Cross(axis, v), Sin(angle))),
         VScale(axis, FMul(Dot(axis, v), FSub(Whole(1), Cos(angle)))))

----------------------------------------------------------------------------
(* CorePlane, BrepPlane and ConstructionPlane  (model/geometry/plane.rs, model/plane_utils.rs) *)

MaxPoint == 1
MaxDir == 2
MaxOffset == 1

\* Point3 arguments, and the wider grid from_points draws its three points from
Points == {Vec(<<x, y, z>>) : x \in 0..MaxPoint, y \in 0..MaxPoint, z \in 0..MaxPoint}
TrianglePoints ==
    {Vec(<<x, y, z>>) : x \in 0..(MaxPoint + 1), y \in 0..(MaxPoint + 1), z \in 0..(MaxPoint + 1)}

\* Vector3 arguments: the integer vectors of rational length, the zero vector among them
Directions ==
    {v \in {Vec(<<x, y, z>>) : x \in -MaxDir..MaxDir, y \in -MaxDir..MaxDir, z \in -MaxDir..MaxDir} :
        ExactNorm(v)}

\* Option<f64> offsets
Offsets == {None} \cup {Some(Whole(k)) : k \in -MaxOffset..MaxOffset}

\* Angles, in quarter turns
Angles == 0..3

\* Option<Point3> rotation centres: none, or a corner of the point grid
Centers ==
    {None} \cup {Some(Vec(<<x, y, z>>)) : x \in {0, MaxPoint}, y \in {0, MaxPoint}, z \in {0, MaxPoint}}

\* PlaneConstructionResult
PlaneConstructionResult(normal, origin, d_coefficient) ==
    [normal |-> normal, origin |-> origin, d_coefficient |-> d_coefficient]

\* CorePlane; of PlaneOrigin the variant's name is kept, not its payload
CorePlane(normal, d, origin, construction_origin) ==
    [normal |-> normal, d |-> d, origin |-> origin, construction_origin |-> construction_origin]

\* CorePlane::new
CorePlaneNew(normal, origin) ==
    LET n == Normalize(normal)
        d == FNeg(Dot(n, origin))
    IN  CorePlane(n, d, origin, "PointNormal")

\* offset.unwrap_or(0.0)
unwrap_or_zero(offset) == IF offset # None THEN offset[1] ELSE Whole(0)

\* plane_utils::construct_plane_from_point_normal
construct_plane_from_point_normal(point, normal, offset) ==
    LET n == Normalize(normal)
        d == FAdd(FNeg(Dot(n, point)), unwrap_or_zero(offset))
    IN  PlaneConstructionResult(n, point, d)

\* CorePlane::from_point_normal
from_point_normal(point, normal, offset) ==
    IF FLess(Norm(normal), Whole(Eps))
    THEN None
    ELSE LET result == construct_plane_from_point_normal(point, normal, offset) IN
         Some(CorePlane(result.normal, result.d_coefficient, result.origin, "PointNormal"))

\* construct_plane_from_points taking the first edge b - a for the normal
construct_plane_from_points_NormalAlongEdge(a, b, c) ==
    LET ab == VSub(b, a)
        ac == VSub(c, a)
        n == Cross(ab, ac)
    IN  IF FLess(Norm(n), Whole(Eps))
        THEN PlaneConstructionResult(Vec(<<0, 0, 0>>), Vec(<<0, 0, 0>>), Whole(0))
        ELSE construct_plane_from_point_normal(a, ab, None)

\* plane_utils::construct_plane_from_points
construct_plane_from_points(a, b, c) ==
    LET ab == VSub(b, a)
        ac == VSub(c, a)
        n == Cross(ab, ac)
    IN  IF FLess(Norm(n), Whole(Eps))
        THEN PlaneConstructionResult(Vec(<<0, 0, 0>>), Vec(<<0, 0, 0>>), Whole(0))
        ELSE construct_plane_from_point_normal(a, n, None)

\* from_points accepting whatever construct_plane_from_points hands back
from_points_Unchecked(a, b, c) ==
    LET result == construct_plane_from_points(a, b, c) IN
    Some(CorePlane(result.normal, result.d_coefficient, result.origin, "ThreePoints"))

\* CorePlane::from_points
from_points(a, b, c) ==
    LET result == construct_plane_from_points(a, b, c) IN
    IF BelowTolerance(Norm(result.normal))
    THEN None
    ELSE Some(CorePlane(result.normal, result.d_coefficient, result.origin, "ThreePoints"))

\* The reference axis construct_plane_from_line_angle takes for a unit direction
UpFor(dir) ==
    IF FLess(FAbs(dir[1]), Real(9, 10)) THEN Vec(<<1, 0, 0>>) ELSE Vec(<<0, 1, 0>>)

\* plane_utils::construct_plane_from_line_angle
construct_plane_from_line_angle(point, direction, angle) ==
    LET dir == Normalize(direction)
        perp == Normalize(Cross(dir, UpFor(dir)))
        normal == Normalize(VAdd(VScale(dir, Cos(angle)), VScale(perp, Sin(angle))))
    IN  construct_plane_from_point_normal(point, normal, None)

\* CorePlane::from_line_angle
from_line_angle(point, direction, angle) ==
    IF FLess(Norm(direction), Whole(Eps))
    THEN None
    ELSE LET result == construct_plane_from_line_angle(point, direction, angle) IN
         Some(CorePlane(result.normal, result.d_coefficient, result.origin, "LineAngle"))

\* CorePlane::xy over plane_utils::construct_xy_plane
xy == CorePlane(Vec(<<0, 0, 1>>), Whole(0), Vec(<<0, 0, 0>>), "StandardXY")

\* CorePlane::yz over plane_utils::construct_yz_plane
yz == CorePlane(Vec(<<1, 0, 0>>), Whole(0), Vec(<<0, 0, 0>>), "StandardYZ")

\* CorePlane::xz over plane_utils::construct_xz_plane
xz == CorePlane(Vec(<<0, 1, 0>>), Whole(0), Vec(<<0, 0, 0>>), "StandardXZ")

\* CorePlane::distance
distance(core, point) == FAdd(Dot(core.normal, point), core.d)

\* BrepPlane::new; the rendering fields (visible, render_mode, render_color) are left out
BrepPlaneNew(core) == [core |-> core, rotation |-> 0, facing |-> TRUE]

\* BrepPlane::rotate_around_normal
rotate_around_normal(p, angle, center) ==
    LET axis == Normalize(p.core.normal)
        c == IF center # None THEN center[1] ELSE p.core.origin
        rel == VSub(p.core.origin, c)
        rotated == Rotate(axis, angle, rel)
        new_origin == VAdd(c, rotated)
        new_core == CorePlaneNew(p.core.normal, new_origin)
    IN  [BrepPlaneNew(new_core) EXCEPT !.rotation = p.rotation + angle, !.facing = p.facing]

\* BrepPlane::align_to_vector
align_to_vector(p, new_normal) ==
    LET new_core == CorePlaneNew(Normalize(new_normal), p.core.origin) IN
    [BrepPlaneNew(new_core) EXCEPT !.rotation = p.rotation, !.facing = p.facing]

\* BrepPlane::flip_normal
flip_normal(p) ==
    LET new_core == CorePlaneNew(VNeg(p.core.normal), p.core.origin) IN
    [BrepPlaneNew(new_core) EXCEPT !.rotation = p.rotation, !.facing = ~p.facing]

\* BrepPlane::distance
brep_distance(p, point) == distance(p.core, point)

\* ConstructionPlane::new; size and the rendering fields are left out
ConstructionPlaneNew(core) == [core |-> core, rotation |-> 0]

\* ConstructionPlane::from_normal_origin
from_normal_origin(normal, origin) == ConstructionPlaneNew(CorePlaneNew(normal, origin))

\* The point triples whose cross product has a rational length
Triangles ==
    {t \in TrianglePoints \X TrianglePoints \X TrianglePoints :
        ExactNorm(Cross(VSub(t[2], t[1]), VSub(t[3], t[1])))}

\* The directions for which the perpendicular of construct_plane_from_line_angle has a
\* rational length, and those from_line_angle rejects before it
LineDirections ==
    {v \in Directions :
        \/ FLess(Norm(v), Whole(Eps))
        \/ ExactNorm(Cross(Normalize(v), UpFor(Normalize(v))))}

\* A plane call: its name, arguments, receiver (None for a constructor) and returned value
PlaneCall(op, args, self, result) ==
    [op |-> op, args |-> args, self |-> self, result |-> result]

\* The constructors of CorePlane
CoreConstructors == {"new", "from_point_normal", "from_points", "from_line_angle", "xy", "yz", "xz"}

\* Nothing is constructed yet.  One plane is followed: a CorePlane is constructed, wrapped
\* by BrepPlane::new and handed to one transform
InitPlane ==
    /\ shell = ShellIdle /\ edge_face_map = NoMap /\ shellOp = ShellOpIdle
    /\ body = BodyIdle /\ shells = <<>> /\ bodyOp = BodyOpIdle /\ prim = PrimIdle
    /\ props = PropsIdle /\ propsOp = PropsOpIdle
    /\ collection = CollIdle /\ collOp = CollOpIdle /\ live = {}
    /\ plane = PlaneIdle /\ planeOp = PlaneOpIdle
    /\ generators = GeneratorsIdle /\ issued = <<>> /\ idOp = IdOpIdle

PlaneNew ==
    /\ planeOp.op = "idle"
    /\ \E normal \in Directions, origin \in Points :
        planeOp' = PlaneCall("new", <<normal, origin>>, None, Some(CorePlaneNew(normal, origin)))
    /\ UNCHANGED <<plane, shellVars, bodyVars, primVars, propsVars, collVars, idVars>>

PlaneFromPointNormal ==
    /\ planeOp.op = "idle"
    /\ \E point \in Points, normal \in Directions, offset \in Offsets :
        planeOp' = PlaneCall("from_point_normal", <<point, normal, offset>>, None,
                             from_point_normal(point, normal, offset))
    /\ UNCHANGED <<plane, shellVars, bodyVars, primVars, propsVars, collVars, idVars>>

PlaneFromPoints ==
    /\ planeOp.op = "idle"
    /\ \E t \in Triangles :
        planeOp' = PlaneCall("from_points", t, None, from_points(t[1], t[2], t[3]))
    /\ UNCHANGED <<plane, shellVars, bodyVars, primVars, propsVars, collVars, idVars>>

PlaneFromLineAngle ==
    /\ planeOp.op = "idle"
    /\ \E point \in Points, direction \in LineDirections, angle \in Angles :
        planeOp' = PlaneCall("from_line_angle", <<point, direction, angle>>, None,
                             from_line_angle(point, direction, angle))
    /\ UNCHANGED <<plane, shellVars, bodyVars, primVars, propsVars, collVars, idVars>>

PlaneXY ==
    /\ planeOp.op = "idle"
    /\ planeOp' = PlaneCall("xy", <<>>, None, Some(xy))
    /\ UNCHANGED <<plane, shellVars, bodyVars, primVars, propsVars, collVars, idVars>>

PlaneYZ ==
    /\ planeOp.op = "idle"
    /\ planeOp' = PlaneCall("yz", <<>>, None, Some(yz))
    /\ UNCHANGED <<plane, shellVars, bodyVars, primVars, propsVars, collVars, idVars>>

PlaneXZ ==
    /\ planeOp.op = "idle"
    /\ planeOp' = PlaneCall("xz", <<>>, None, Some(xz))
    /\ UNCHANGED <<plane, shellVars, bodyVars, primVars, propsVars, collVars, idVars>>

\* ConstructionPlane::from_normal_origin hands back a ConstructionPlane, no BrepPlane
PlaneFromNormalOrigin ==
    /\ planeOp.op = "idle"
    /\ \E normal \in Directions, origin \in Points :
        planeOp' = PlaneCall("from_normal_origin", <<normal, origin>>, None,
                             Some(from_normal_origin(normal, origin)))
    /\ UNCHANGED <<plane, shellVars, bodyVars, primVars, propsVars, collVars, idVars>>

\* BrepPlane::new over the CorePlane a constructor returned (BrepPlane::from_point_normal,
\* from_points, from_line_angle, xy, yz and plane_xz are the constructor mapped by it)
BrepNew ==
    /\ planeOp.op \in CoreConstructors
    /\ planeOp.result # None
    /\ plane' = Some(BrepPlaneNew(planeOp.result[1]))
    /\ planeOp' = PlaneCall("brep_new", <<>>, None, Some(BrepPlaneNew(planeOp.result[1])))
    /\ UNCHANGED <<shellVars, bodyVars, primVars, propsVars, collVars, idVars>>

\* The transforms take &self: the receiver stays as it is and a new plane is returned
FlipNormal ==
    /\ planeOp.op = "brep_new"
    /\ planeOp' = PlaneCall("flip_normal", <<>>, plane, Some(flip_normal(plane[1])))
    /\ UNCHANGED <<plane, shellVars, bodyVars, primVars, propsVars, collVars, idVars>>

RotateAroundNormal ==
    /\ planeOp.op = "brep_new"
    /\ \E angle \in Angles, center \in Centers :
        planeOp' = PlaneCall("rotate_around_normal", <<angle, center>>, plane,
                             Some(rotate_around_normal(plane[1], angle, center)))
    /\ UNCHANGED <<plane, shellVars, bodyVars, primVars, propsVars, collVars, idVars>>

AlignToVector ==
    /\ planeOp.op = "brep_new"
    /\ \E new_normal \in Directions :
        planeOp' = PlaneCall("align_to_vector", <<new_normal>>, plane,
                             Some(align_to_vector(plane[1], new_normal)))
    /\ UNCHANGED <<plane, shellVars, bodyVars, primVars, propsVars, collVars, idVars>>

NextPlane ==
    PlaneNew \/ PlaneFromPointNormal \/ PlaneFromPoints \/ PlaneFromLineAngle
    \/ PlaneXY \/ PlaneYZ \/ PlaneXZ \/ PlaneFromNormalOrigin \/ BrepNew
    \/ FlipNormal \/ RotateAroundNormal \/ AlignToVector

----------------------------------------------------------------------------
(* IdGenerator  (model/brep/id.rs) *)

MaxIds == 4

\* The id types with a generator in the model
IdKinds == {"BodyId", "ShellId", "FaceId"}

\* BrepId::from_value for the id type kind
from_value(kind, value) == [kind |-> kind, value |-> value]

\* IdGenerator::new
IdGeneratorNew == [next_id |-> 1]

\* IdGenerator::new_id that does not advance next_id
new_id_Stuck(g) == g

\* IdGenerator::new_id: the generator afterwards. next_id is a u64; the guard of NewId
\* keeps it far below 2^64, so the increment never wraps
new_id(g) == [g EXCEPT !.next_id = g.next_id + 1]

\* IdGenerator::new_id: the id returned
new_id_ret(kind, g) == from_value(kind, g.next_id)

\* IdGenerator::peek_next looking one id too far
peek_next_Ahead(kind, g) == from_value(kind, g.next_id + 1)

\* IdGenerator::peek_next
peek_next(kind, g) == from_value(kind, g.next_id)

IdCall(op, kind, ret) == [op |-> op, kind |-> kind, ret |-> ret]

\* One fresh generator per id type
InitIds ==
    /\ shell = ShellIdle /\ edge_face_map = NoMap /\ shellOp = ShellOpIdle
    /\ body = BodyIdle /\ shells = <<>> /\ bodyOp = BodyOpIdle /\ prim = PrimIdle
    /\ props = PropsIdle /\ propsOp = PropsOpIdle
    /\ collection = CollIdle /\ collOp = CollOpIdle /\ live = {}
    /\ plane = PlaneIdle /\ planeOp = PlaneOpIdle
    /\ generators = [kind \in IdKinds |-> IdGeneratorNew]
    /\ issued = [kind \in IdKinds |-> <<>>]
    /\ idOp = IdCall("new", "", None)

NewId ==
    \E kind \in IdKinds :
        /\ generators[kind].next_id <= MaxIds
        /\ generators' = [generators EXCEPT ![kind] = new_id(generators[kind])]
        /\ issued' = [issued EXCEPT ![kind] = Append(issued[kind], new_id_ret(kind, generators[kind]))]
        /\ idOp' = IdCall("new_id", kind, Some(new_id_ret(kind, generators[kind])))
        /\ UNCHANGED <<shellVars, bodyVars, primVars, propsVars, collVars, planeVars>>

PeekNext ==
    \E kind \in IdKinds :
        /\ idOp' = IdCall("peek_next", kind, Some(peek_next(kind, generators[kind])))
        /\ UNCHANGED <<generators, issued, shellVars, bodyVars, primVars, propsVars, collVars, planeVars>>

NextIds == NewId \/ PeekNext

----------------------------------------------------------------------------
(* A shell or a body, for the operations the two types share *)

\* The program holds a shell or holds a body; the operations of the type it does not
\* hold are not enabled (their guards ask for an object)
InitRemoval == InitShell \/ InitBody

NextRemoval ==
    AddFace \/ RemoveFace \/ ComputeProperties
    \/ AddInnerShell \/ RemoveInnerShell \/ ComputeBodyType

----------------------------------------------------------------------------
(* Specifications *)

SpecShell == InitShell /\ [][NextShell]_vars

SpecBody == InitBody /\ [][NextBody]_vars

SpecPrim == InitPrim /\ [][NextPrim]_vars

SpecProps == InitProps /\ [][NextProps]_vars

SpecColl == InitColl /\ [][NextColl]_vars

SpecPlane == InitPlane /\ [][NextPlane]_vars

SpecIds == InitIds /\ [][NextIds]_vars

SpecRemoval == InitRemoval /\ [][NextRemoval]_vars

----------------------------------------------------------------------------
(* Shell closure and boundary edges *)

\* The faces listed for edge e in the map that belong to the shell
MemberFaces(e) == edge_face_map[e] \cap Range(shell.faces)

\* The edges of the map with exactly n member faces
EdgesWithMemberFaces(n) == {e \in DOMAIN edge_face_map : Cardinality(MemberFaces(e)) = n}

ShellMutated ==
    \/ shellOp.op = "add_face"
    \/ shellOp.op = "remove_face" /\ shellOp.ret

\* C1: after compute_properties, is_closed() is true iff every edge of the map with at
\* least one member face has exactly two member faces.
C1_ClosedIffEveryEdgeHasTwoMemberFaces ==
    shellOp.op = "compute_properties" =>
        (is_closed(shell) <=>
            \A e \in DOMAIN edge_face_map :
                Cardinality(MemberFaces(e)) >= 1 => Cardinality(MemberFaces(e)) = 2)

\* C5: after add_face or a successful remove_face, boundary_edges() is None and
\* is_closed() does not return the true computed for the previous face set.
C5_MutationInvalidatesBothCaches ==
    ShellMutated => (boundary_edges(shell) = None /\ ~is_closed(shell))

\* C6: after compute_properties, an open shell's boundary_edges() holds exactly the
\* edges with exactly one member face, each once; a closed shell's is None.
C6_BoundaryEdgesExact ==
    shellOp.op = "compute_properties" =>
        IF is_closed(shell)
        THEN boundary_edges(shell) = None
        ELSE /\ boundary_edges(shell) # None
             /\ Range(boundary_edges(shell)[1]) = EdgesWithMemberFaces(1)
             /\ Len(boundary_edges(shell)[1]) = Cardinality(EdgesWithMemberFaces(1))

\* An open shell has just been analysed: one edge of the map is a boundary edge
\* and another edge, with two or more member faces, is not
C6_Witness ==
    /\ shellOp.op = "compute_properties"
    /\ ~is_closed(shell)
    /\ EdgesWithMemberFaces(1) # {}
    /\ \E e \in DOMAIN edge_face_map : Cardinality(MemberFaces(e)) >= 2
    /\ boundary_edges(shell) # None

----------------------------------------------------------------------------
(* Body classification *)

\* A shell reference counts as closed when the table holds a closed shell under it
RefClosed(ref) == shells[ref] # None /\ shells[ref][1].is_closed

\* The classification rule applied to the body's shell lists and the table's closure flags
ClassificationRule ==
    IF body.inner_shells = <<>>
    THEN IF RefClosed(body.outer_shell) THEN "Solid" ELSE "Open"
    ELSE IF /\ RefClosed(body.outer_shell)
            /\ \A i \in 1..Len(body.inner_shells) : RefClosed(body.inner_shells[i])
         THEN "Hollow"
         ELSE "Compound"

BodyMutated ==
    \/ bodyOp.op = "add_inner_shell"
    \/ bodyOp.op = "remove_inner_shell" /\ bodyOp.ret

\* C2 as stated: for every body and every shell table, body_type(shells) is the
\* classification rule's value.
C2_BodyTypeIsRule == body_type(body, shells) = ClassificationRule

\* C2 amended: a body with no cached type is classified by the rule; a body with a
\* cached type reports the cached type.
C2_BodyTypeIsRuleUnlessCached ==
    /\ body.body_type = None => body_type(body, shells) = ClassificationRule
    /\ body.body_type # None => body_type(body, shells) = body.body_type[1]

\* A body with inner shells and no cached type, classified Hollow over closed shells
C2_Witness ==
    /\ body.body_type = None
    /\ Len(body.inner_shells) = 2
    /\ body_type(body, shells) = "Hollow"

\* After add_inner_shell or a successful remove_inner_shell the cached type is cleared
\* and body_type(shells) is the rule applied to the current shell lists
MutationClearsCache ==
    BodyMutated => (body.body_type = None /\ body_type(body, shells) = ClassificationRule)

\* A body over a closed outer shell with no inner shells is Compound once an open inner
\* shell is added
SolidBecomesCompound ==
    /\ body.inner_shells = <<>> /\ body'.inner_shells # <<>>
    /\ RefClosed(body.outer_shell) /\ ~RefClosed(body'.inner_shells[1])
    => body_type(body', shells') = "Compound"

\* A body over a closed outer shell is Solid once its last inner shell is removed
CompoundBecomesSolid ==
    /\ body.inner_shells # <<>> /\ body'.inner_shells = <<>>
    /\ RefClosed(body.outer_shell)
    => body_type(body', shells') = "Solid"

\* C3: after add_inner_shell or a successful remove_inner_shell the cached type is
\* cleared, so body_type(shells) is the rule applied to the current shell lists; a body
\* over a closed outer shell goes from Solid to Compound when an open inner shell is
\* added and back to Solid when it is removed.
C3_MutationClearsCache ==
    /\ []MutationClearsCache
    /\ [][SolidBecomesCompound]_vars
    /\ [][CompoundBecomesSolid]_vars

\* The only inner shell, an open one, has just been removed from a body over a closed
\* outer shell
C3_Witness ==
    /\ bodyOp.op = "remove_inner_shell" /\ bodyOp.ret
    /\ shells[bodyOp.ref] # None /\ ~RefClosed(bodyOp.ref)
    /\ body.inner_shells = <<>>
    /\ RefClosed(body.outer_shell)
    /\ body_type(body, shells) = "Solid"

\* C4: after compute_body_type(shells), body_type(shells) is the rule applied to the
\* current shells and the closure flags held in the table.
C4_ComputeBodyTypeIsUpToDate ==
    bodyOp.op = "compute_body_type" => body_type(body, shells) = ClassificationRule

----------------------------------------------------------------------------
(* Generator bundles *)

HasBundle == prim.result # None
Bundle == prim.result[1]

Ids(list) == {list[k].id : k \in 1..Len(list)}

\* The ids of a list are exactly 0..len-1
DenseIds(list) == Ids(list) = 0..(Len(list) - 1)

\* The edge of bundle b with id eid
EdgeOf(b, eid) == CHOOSE e \in Range(b.edges) : e.id = eid

Ends(b, eid) == {EdgeOf(b, eid).vertices[1], EdgeOf(b, eid).vertices[2]}

\* The vertex reached by crossing edge eid from vertex v
Across(b, eid, v) ==
    IF EdgeOf(b, eid).vertices[1] = v
    THEN EdgeOf(b, eid).vertices[2]
    ELSE EdgeOf(b, eid).vertices[1]

\* Walking the edges chain[k..] in list order from vertex v ends at vertex start
RECURSIVE WalkReturns(_, _, _, _, _)
WalkReturns(b, chain, k, v, start) ==
    IF k > Len(chain)
    THEN v = start
    ELSE /\ v \in Ends(b, chain[k])
         /\ WalkReturns(b, chain, k + 1, Across(b, chain[k], v), start)

\* chain is a closed chain of edges of b in one traversal order
ClosedChain(b, chain) ==
    /\ Len(chain) >= 1
    /\ \A k \in 1..Len(chain) : chain[k] \in Ids(b.edges)
    /\ \A k \in 1..Len(chain) :
        Ends(b, chain[k]) \cap Ends(b, chain[(k % Len(chain)) + 1]) # {}
    /\ \E start \in Ends(b, chain[1]) : WalkReturns(b, chain, 1, start, start)

\* C7: in every generator's bundle every edge loop is a closed chain in one traversal order.
C7_EveryLoopIsClosedChain ==
    HasBundle =>
        \A l \in 1..Len(Bundle.edge_loops) :
            \A c \in 1..Len(Bundle.edge_loops[l].edges) :
                ClosedChain(Bundle, Bundle.edge_loops[l].edges[c])

\* C8: in every generator's bundle the ids of each list are exactly 0..len-1 and every
\* cross-reference names an id of the bundle.
C8_DenseIdsAndReferencesInRange ==
    HasBundle =>
        /\ DenseIds(Bundle.vertices) /\ DenseIds(Bundle.edges)
        /\ DenseIds(Bundle.edge_loops) /\ DenseIds(Bundle.faces)
        /\ \A k \in 1..Len(Bundle.edges) :
            /\ Bundle.edges[k].vertices[1] \in Ids(Bundle.vertices)
            /\ Bundle.edges[k].vertices[2] \in Ids(Bundle.vertices)
        /\ \A l \in 1..Len(Bundle.edge_loops) :
            \A c \in 1..Len(Bundle.edge_loops[l].edges) :
                Range(Bundle.edge_loops[l].edges[c]) \subseteq Ids(Bundle.edges)
        /\ \A f \in 1..Len(Bundle.faces) :
            Range(Bundle.faces[f].edge_loops) \subseteq Ids(Bundle.edge_loops)

\* A cone with the most segments has been generated: its last loop names the last edge
C8_Witness ==
    /\ prim.gen = "cone" /\ HasBundle
    /\ prim.args[3] = MaxSegments
    /\ \E l \in 1..Len(Bundle.edge_loops) :
        (Len(Bundle.edges) - 1) \in Range(Bundle.edge_loops[l].edges[1])

\* The loop of bundle b with id lid
LoopOf(b, lid) == CHOOSE l \in Range(b.edge_loops) : l.id = lid

\* C9: cube(size) has 8 vertices, 12 edges, 6 loops and 6 faces; every edge's vertex ids
\* are in 0..7; every face has one loop, of exactly 4 edge ids forming a closed cycle.
C9_CubeShape ==
    prim.gen = "cube" =>
        /\ HasBundle
        /\ Len(Bundle.vertices) = 8 /\ Len(Bundle.edges) = 12
        /\ Len(Bundle.edge_loops) = 6 /\ Len(Bundle.faces) = 6
        /\ \A k \in 1..Len(Bundle.edges) :
            Bundle.edges[k].vertices[1] \in 0..7 /\ Bundle.edges[k].vertices[2] \in 0..7
        /\ \A f \in 1..Len(Bundle.faces) :
            /\ Len(Bundle.faces[f].edge_loops) = 1
            /\ Bundle.faces[f].edge_loops[1] \in Ids(Bundle.edge_loops)
            /\ LET loop == LoopOf(Bundle, Bundle.faces[f].edge_loops[1]) IN
                /\ Len(loop.edges) = 1
                /\ Len(loop.edges[1]) = 4
                /\ Cardinality(Range(loop.edges[1])) = 4
                /\ ClosedChain(Bundle, loop.edges[1])

\* A cube has been generated
C9_Witness ==
    /\ prim.gen = "cube" /\ HasBundle
    /\ Len(Bundle.faces) = 6
    /\ ClosedChain(Bundle, LoopOf(Bundle, Bundle.faces[6].edge_loops[1]).edges[1])

\* C10: cylinder and cone return None for every segments < 3 and a bundle for every
\* segments >= 3 (a bundle of that many segments, not of a clamped count).
C10_SegmentsBelowThreeRejected ==
    prim.gen \in {"cylinder", "cone"} =>
        /\ prim.args[3] < 3 => prim.result = None
        /\ prim.args[3] >= 3 =>
            /\ HasBundle
            /\ Len(Bundle.faces) = (IF prim.gen = "cylinder" THEN 3 ELSE 2) * prim.args[3]

\* cylinder and cone have been called with 2 segments and have returned None
C10_Witness ==
    /\ prim.gen \in {"cylinder", "cone"}
    /\ prim.args[3] = 2
    /\ prim.result = None

----------------------------------------------------------------------------
(* Cylinder and cone counts *)

\* The vertices of bundle b that are rim points at height z
RimVerticesAt(b, z) ==
    {k \in 1..Len(b.vertices) : b.vertices[k].position.form = "rim"
                                 /\ b.vertices[k].position.z = z}

\* The vertices of bundle b that lie on the axis
AxisVertices(b) ==
    {k \in 1..Len(b.vertices) : b.vertices[k].position.form = "xyz"
                                 /\ b.vertices[k].position.at[1] = 0
                                 /\ b.vertices[k].position.at[2] = 0}

\* The loops of bundle b with ids lo..hi all hold one chain of `size` distinct edges
LoopsOfSize(b, lo, hi, size) ==
    \A lid \in lo..hi :
        /\ lid \in Ids(b.edge_loops)
        /\ Len(LoopOf(b, lid).edges) = 1
        /\ Len(LoopOf(b, lid).edges[1]) = size
        /\ Cardinality(Range(LoopOf(b, lid).edges[1])) = size

\* Every face of bundle b has exactly one loop, and no two faces share one
OneLoopPerFace(b) ==
    /\ \A f \in 1..Len(b.faces) : Len(b.faces[f].edge_loops) = 1
    /\ \A f, g \in 1..Len(b.faces) :
        f # g => b.faces[f].edge_loops[1] # b.faces[g].edge_loops[1]

\* C11: for every segments n >= 3, cylinder(r, h, n) has 2n+2 vertices (n bottom rim,
\* n top rim, 2 cap centres), 5n edges and 3n loops and faces (n bottom-cap triangles,
\* n top-cap triangles, n side quads of 4 edges); cone(r, h, n) has n+2 vertices, 3n edges
\* and 2n loops and faces, all of them triangles.
C11_CylinderAndConeCounts ==
    (prim.gen \in {"cylinder", "cone"} /\ prim.args[3] >= 3) =>
        LET n == prim.args[3]
            h == prim.args[2]
        IN  /\ HasBundle
            /\ OneLoopPerFace(Bundle)
            /\ prim.gen = "cylinder" =>
                /\ Len(Bundle.vertices) = 2 * n + 2
                /\ Cardinality(RimVerticesAt(Bundle, -(h \div 2))) = n
                /\ Cardinality(RimVerticesAt(Bundle, h \div 2)) = n
                /\ Cardinality(AxisVertices(Bundle)) = 2
                /\ Len(Bundle.edges) = 5 * n
                /\ Len(Bundle.edge_loops) = 3 * n
                /\ Len(Bundle.faces) = 3 * n
                /\ LoopsOfSize(Bundle, 0, 2 * n - 1, 3)
                /\ LoopsOfSize(Bundle, 2 * n, 3 * n - 1, 4)
            /\ prim.gen = "cone" =>
                /\ Len(Bundle.vertices) = n + 2
                /\ Cardinality(RimVerticesAt(Bundle, 0)) = n
                /\ Cardinality(AxisVertices(Bundle)) = 2
                /\ Len(Bundle.edges) = 3 * n
                /\ Len(Bundle.edge_loops) = 2 * n
                /\ Len(Bundle.faces) = 2 * n
                /\ LoopsOfSize(Bundle, 0, 2 * n - 1, 3)

\* A cylinder of the most segments has been generated and its last loop is a side quad
C11_Witness ==
    /\ prim.gen = "cylinder" /\ HasBundle
    /\ prim.args[3] = MaxSegments
    /\ Len(Bundle.edge_loops) = 3 * MaxSegments
    /\ Len(Bundle.edge_loops[3 * MaxSegments].edges[1]) = 4

----------------------------------------------------------------------------
(* Body validity *)

\* The shell ids a body refers to
ReferencedShells == {body.outer_shell} \cup Range(body.inner_shells)

\* The keys of the shell table
ShellKeys == {ref \in ShellIds : shells[ref] # None}

IsValidReportsMissingReferences ==
    bodyOp.op = "is_valid" => (bodyOp.ret <=> ReferencedShells \subseteq ShellKeys)

IsValidChangesNothing ==
    bodyOp'.op = "is_valid" => (body' = body /\ shells' = shells)

\* C16: is_valid(shells) returns true if and only if the outer shell id and every inner
\* shell id of the body are keys of the shell table, and it changes neither the body nor
\* the table.
C16_IsValidIffAllShellsPresent ==
    []IsValidReportsMissingReferences /\ [][IsValidChangesNothing]_vars

\* is_valid has returned false for a body whose outer shell is in the table and whose
\* second inner shell is the only one that is missing
C16_Witness ==
    /\ bodyOp.op = "is_valid" /\ ~bodyOp.ret
    /\ shells[body.outer_shell] # None
    /\ Len(body.inner_shells) = 2
    /\ shells[body.inner_shells[1]] # None
    /\ shells[body.inner_shells[2]] = None

----------------------------------------------------------------------------
(* BodyProperties *)

SetVolumeTakesEffect ==
    propsOp'.op = "set_volume" =>
        /\ volume(props') = Some(propsOp'.args[1])
        /\ mass(props') = Some(props.material.density * propsOp'.args[1])
        /\ props'.material = props.material

\* C12: set_volume(v) takes effect immediately: directly after the call volume() returns
\* v and mass() returns material.density * v for the material held at the time of the call.
C12_SetVolumeSetsVolumeAndMass == [][SetVolumeTakesEffect]_vars

\* set_volume(0.001) on a body of steel has given the mass 7.85
C12_Witness ==
    /\ propsOp.op = "set_volume" /\ propsOp.args = <<1>>
    /\ props.material.name = "Steel"
    /\ volume(props) = Some(1)
    /\ mass(props) = Some(7850)

\* C13: set_material(m) replaces the material and invalidates all four cached scalars:
\* directly after the call volume(), surface_area(), mass() and center_of_mass() all return
\* None, whatever values were cached before.
C13_SetMaterialInvalidatesAll ==
    propsOp.op = "set_material" =>
        /\ props.material = propsOp.args[1]
        /\ volume(props) = None
        /\ surface_area(props) = None
        /\ mass(props) = None
        /\ center_of_mass(props) = None

\* set_material has been called on a BodyProperties that held all four cached scalars
C13_Witness ==
    /\ propsOp.op = "set_material"
    /\ propsOp.cleared = {"set_volume", "set_surface_area", "set_center_of_mass"}
    /\ props.material.name = "Aluminum"
    /\ surface_area(props) = None

NotComputedIsNone ==
    /\ "set_volume" \notin propsOp.since =>
        /\ volume(props) = None
        /\ mass(props) = None
        /\ calculate_mass(props) = None
        /\ estimated_cost(props) = None
        /\ propsOp.op \in {"calculate_mass", "estimated_cost"} => propsOp.ret = None
    /\ "set_surface_area" \notin propsOp.since => surface_area(props) = None
    /\ "set_center_of_mass" \notin propsOp.since => center_of_mass(props) = None

ReadAccessorsChangeNothing ==
    propsOp'.op \in {"calculate_mass", "estimated_cost"} => props' = props

\* C14: a derived scalar that has not been computed is reported as None, never as zero:
\* while set_volume has not been called since creation or since the last invalidation,
\* volume(), mass(), calculate_mass() and estimated_cost() return None; surface_area() and
\* center_of_mass() return None until their setter is called; calculate_mass() and
\* estimated_cost() never change a field.
C14_UncomputedIsUnavailable == []NotComputedIsNone /\ [][ReadAccessorsChangeNothing]_vars

\* calculate_mass has returned None on a priced material after an invalidation that
\* cleared a volume
C14_Witness ==
    /\ propsOp.op = "calculate_mass" /\ propsOp.ret = None
    /\ "set_volume" \notin propsOp.since
    /\ "set_surface_area" \in propsOp.since
    /\ props.material.cost_per_volume # None
    /\ surface_area(props) = Some(0)

----------------------------------------------------------------------------
(* BodyPropertiesCollection *)

\* The keys under which an entry with body id `body_id` is stored
KeysHolding(body_id) ==
    {key \in BodyIds : collection[key] # None /\ collection[key][1].body_id = body_id}

Inserting == {"add_body_properties", "create_body_properties",
              "create_body_properties_with_material"}

CollectionKeyedByBodyId ==
    /\ \A body_id \in BodyIds : KeysHolding(body_id) \subseteq {body_id}
    /\ {body_id \in BodyIds : collection[body_id] # None} = live
    /\ count(collection) = Cardinality(live)
    /\ collOp.op \in Inserting => collection[collOp.args[1]] = Some(collOp.args[2])
    /\ collOp.op = "get_properties" => collOp.ret = collection[collOp.args[1]]

MissingEntryGivesNone ==
    /\ collOp'.op \in {"get_properties", "remove_properties"} =>
        (collOp'.args[1] \notin live => collOp'.ret = None)
    /\ collOp'.op \in {"get_properties", "remove_properties"} =>
        (collOp'.args[1] \in live => collOp'.ret = collection[collOp'.args[1]])

\* C15: after any sequence of add_body_properties, create_body_properties,
\* create_body_properties_with_material, remove_properties and clear there is at most one
\* entry per body id, every entry is stored under the key equal to its own body_id, count()
\* is the number of distinct ids added and not removed since, adding for an id already
\* present replaces the earlier entry, and get_properties / remove_properties return None
\* for an id that has no entry.
C15_CollectionKeyedByBodyId == []CollectionKeyedByBodyId /\ [][MissingEntryGivesNone]_vars

\* add_body_properties has stored a steel entry under its own id while every id has an entry
C15_Witness ==
    /\ collOp.op = "add_body_properties"
    /\ collOp.args[2].material.name = "Steel"
    /\ collection[collOp.args[1]] = Some(collOp.args[2])
    /\ count(collection) = 3
    /\ live = BodyIds

----------------------------------------------------------------------------
(* Planes *)

ZeroVector == Vec(<<0, 0, 0>>)

\* The vector whose length a failing constructor tests: the normal, the cross product of
\* the point differences, the direction
TestedVector ==
    IF planeOp.op = "from_points"
    THEN Cross(VSub(planeOp.args[2], planeOp.args[1]), VSub(planeOp.args[3], planeOp.args[1]))
    ELSE planeOp.args[2]

FallibleConstructors == {"from_point_normal", "from_points", "from_line_angle"}

\* The CorePlane inside the value a call returned
ResultCore ==
    IF planeOp.op \in CoreConstructors THEN planeOp.result[1] ELSE planeOp.result[1].core

UnitLength(v) == FEq(Dot(v, v), Whole(1))

\* C17: from_points returns None for every collinear triple (coincident points included),
\* from_point_normal for a zero-length normal, from_line_angle for a zero-length direction;
\* each returns Some plane, of unit normal, for every input that is not degenerate, an
\* input being degenerate when the length the constructor tests is below the tolerance.
C17_DegenerateInputFails ==
    planeOp.op \in FallibleConstructors =>
        /\ TestedVector = ZeroVector => planeOp.result = None
        /\ planeOp.result = None <=> FLess(Norm(TestedVector), Whole(Eps))
        /\ planeOp.result # None => UnitLength(ResultCore.normal)

\* from_points has returned None for three distinct collinear points
C17_Witness ==
    /\ planeOp.op = "from_points"
    /\ planeOp.args[1] # planeOp.args[2]
    /\ planeOp.args[1] # planeOp.args[3]
    /\ planeOp.args[2] # planeOp.args[3]
    /\ TestedVector = ZeroVector
    /\ planeOp.result = None

\* C18: every plane handed out by a constructing or transforming entry point has a
\* unit-length normal, and a zero-length normal given to one of them is answered by a
\* failure outcome instead of a plane.
C18_NormalIsUnitLength ==
    (planeOp.op \notin {"idle", "brep_new"} /\ planeOp.result # None) =>
        UnitLength(ResultCore.normal)

\* C19: for every BrepPlane p of unit normal and every point x,
\* p.flip_normal().distance(x) = -p.distance(x), and p itself is unchanged.
C19_FlipNegatesDistance ==
    (planeOp.op = "flip_normal" /\ UnitLength(planeOp.self[1].core.normal)) =>
        /\ plane = planeOp.self
        /\ \A x \in Points :
            FEq(brep_distance(planeOp.result[1], x), FNeg(brep_distance(planeOp.self[1], x)))

\* C20: for every BrepPlane p of unit normal, every angle, every optional center and every
\* point x, p.rotate_around_normal(angle, center).distance(x) = p.distance(x), the normal
\* is unchanged, and the recorded rotation is p.rotation + angle.
C20_RotationKeepsDistance ==
    (planeOp.op = "rotate_around_normal" /\ UnitLength(planeOp.self[1].core.normal)) =>
        /\ planeOp.result[1].core.normal = planeOp.self[1].core.normal
        /\ planeOp.result[1].rotation = planeOp.self[1].rotation + planeOp.args[1]
        /\ \A x \in Points :
            FEq(brep_distance(planeOp.result[1], x), brep_distance(planeOp.self[1], x))

\* C21: whenever from_points(a, b, c) returns a plane, which it does for every triple that
\* is not collinear within the tolerance, the plane contains a, b and c (distance zero)
\* and its normal is parallel to (b-a)x(c-a).
C21_PlaneContainsItsPoints ==
    (planeOp.op = "from_points" /\ planeOp.result # None) =>
        /\ \A k \in 1..3 : FEq(distance(ResultCore, planeOp.args[k]), Whole(0))
        /\ Cross(ResultCore.normal, TestedVector) = ZeroVector
        /\ FLess(Whole(0), Dot(ResultCore.normal, TestedVector))

\* from_points has returned a plane that does not pass through the coordinate origin
C21_Witness ==
    /\ planeOp.op = "from_points"
    /\ planeOp.result # None
    /\ ResultCore.d # Whole(0)

----------------------------------------------------------------------------
(* Identifiers *)

\* C22: for each generator the k-th new_id returns the id of value k, starting at 1, so
\* the ids issued are distinct, strictly increasing, each greater than every id issued
\* before, and never the reserved value 0.
C22_KthIdHasValueK ==
    /\ \A kind \in IdKinds :
        /\ \A k \in 1..Len(issued[kind]) : issued[kind][k] = from_value(kind, k)
        /\ \A j, k \in 1..Len(issued[kind]) : j < k => issued[kind][j].value < issued[kind][k].value
        /\ \A k \in 1..Len(issued[kind]) : issued[kind][k].value # 0
    /\ idOp.op = "new_id" =>
        idOp.ret = Some(issued[idOp.kind][Len(issued[idOp.kind])])

\* One generator has issued three ids while another has issued one
C22_Witness ==
    \E g, h \in IdKinds : g # h /\ Len(issued[g]) = 3 /\ Len(issued[h]) = 1

\* peek_next returns the id of the generator's next_id
PeekShowsNextId ==
    idOp.op = "peek_next" => idOp.ret = Some(from_value(idOp.kind, generators[idOp.kind].next_id))

\* A peek_next changes neither generator nor history; a new_id that follows a peek_next
\* on the same generator returns the id the peek returned
PeekConsumesNothing ==
    /\ idOp'.op = "peek_next" => (generators' = generators /\ issued' = issued)
    /\ (idOp.op = "peek_next" /\ idOp'.op = "new_id" /\ idOp'.kind = idOp.kind) =>
        idOp'.ret = idOp.ret

\* C23: peek_next returns exactly the id the next new_id returns, and any number of
\* peek_next calls leaves the generator and the ids issued later unchanged.
C23_PeekPreviewsWithoutConsuming == []PeekShowsNextId /\ [][PeekConsumesNothing]_vars

\* peek_next has been called on a generator that has already issued two ids
C23_Witness ==
    /\ idOp.op = "peek_next"
    /\ Len(issued[idOp.kind]) = 2

----------------------------------------------------------------------------
(* Shell closure, repeated *)

\* The boundary edges of a shell as a set, with a flag for None
BoundarySet(s) ==
    IF s.boundary_edges = None THEN <<FALSE, {}>> ELSE <<TRUE, Range(s.boundary_edges[1])>>

\* A compute_properties that directly follows a compute_properties, the faces and the map
\* being the same, leaves is_closed and the set of boundary edges as they were
RecomputeGivesTheSame ==
    (shellOp.op = "compute_properties" /\ shellOp'.op = "compute_properties") =>
        /\ shell'.faces = shell.faces
        /\ edge_face_map' = edge_face_map
        /\ shell'.is_closed = shell.is_closed
        /\ BoundarySet(shell') = BoundarySet(shell)

\* C24: compute_properties called twice in a row with the same face list and the same
\* edge-to-face map yields the same is_closed and the same set of boundary edges.
C24_ComputePropertiesIdempotent == [][RecomputeGivesTheSame]_vars

\* compute_properties has found an open shell with two boundary edges
C24_Witness ==
    /\ shellOp.op = "compute_properties"
    /\ ~shell.is_closed
    /\ shell.boundary_edges # None
    /\ Cardinality(Range(shell.boundary_edges[1])) = 2

----------------------------------------------------------------------------
(* Generated solids assembled into a shell *)

\* The faces of bundle b one of whose loops lists edge eid
FacesOfEdge(b, eid) ==
    {f.id : f \in {g \in Range(b.faces) :
        \E k \in 1..Len(g.edge_loops) :
            \E c \in 1..Len(LoopOf(b, g.edge_loops[k]).edges) :
                eid \in Range(LoopOf(b, g.edge_loops[k]).edges[c])}}

\* The edge-to-face map derived from the loops of b, and the edge ids in list order
DerivedEdgeFaceMap(b) == [eid \in Ids(b.edges) |-> FacesOfEdge(b, eid)]
EdgeIdsInOrder(b) == [k \in 1..Len(b.edges) |-> b.edges[k].id]

\* The shell made of all the faces of b, after compute_properties over the derived map
AssembledShell(b) ==
    compute_properties(ShellNew([k \in 1..Len(b.faces) |-> b.faces[k].id]),
                       DerivedEdgeFaceMap(b), EdgeIdsInOrder(b))

\* C25: in every generated solid each edge is referenced by the loops of exactly two
\* faces, and the shell of all its faces, under the edge-to-face map derived from its
\* loops, is computed as closed with no boundary edge.
C25_GeneratedSolidsAreClosed ==
    HasBundle =>
        /\ \A eid \in Ids(Bundle.edges) : Cardinality(FacesOfEdge(Bundle, eid)) = 2
        /\ is_closed(AssembledShell(Bundle))
        /\ boundary_edges(AssembledShell(Bundle)) = None

\* The same, for the generators other than octahedron
AllButOctahedronClosed ==
    (HasBundle /\ prim.gen # "octahedron") =>
        /\ \A eid \in Ids(Bundle.edges) : Cardinality(FacesOfEdge(Bundle, eid)) = 2
        /\ is_closed(AssembledShell(Bundle))

----------------------------------------------------------------------------
(* Ids and list positions *)

\* The element at (0-based) position k of a list has id k
IdIsPosition(list) == \A k \in 1..Len(list) : list[k].id = k - 1

\* The vertex of bundle b with id vid, and the vertex BrepModel::render reads for it
VertexOf(b, vid) == CHOOSE v \in Range(b.vertices) : v.id = vid
VertexAtIndex(b, vid) == b.vertices[vid + 1]

\* C26: in every generator bundle the element at position k of each list has id k, so
\* that an edge's vertex reference resolved by list index reaches the vertex of that id.
C26_IdIsListPosition ==
    HasBundle =>
        /\ IdIsPosition(Bundle.vertices) /\ IdIsPosition(Bundle.edges)
        /\ IdIsPosition(Bundle.edge_loops) /\ IdIsPosition(Bundle.faces)
        /\ \A k \in 1..Len(Bundle.edges) : \A end \in 1..2 :
            VertexAtIndex(Bundle, Bundle.edges[k].vertices[end])
                = VertexOf(Bundle, Bundle.edges[k].vertices[end])

\* The same, for the generators other than cylinder
AllButCylinderIdIsPosition ==
    (HasBundle /\ prim.gen # "cylinder") =>
        /\ IdIsPosition(Bundle.vertices) /\ IdIsPosition(Bundle.edges)
        /\ IdIsPosition(Bundle.edge_loops) /\ IdIsPosition(Bundle.faces)

----------------------------------------------------------------------------
(* Bodies made by new_solid *)

\* The body is as new_solid made it: no inner shell has been added since (a body that was
\* changed and brought back to this value is equal to a fresh one, field by field)
AsNewSolid == body = new_solid(body.outer_shell)

OuterShellPresent == shells[body.outer_shell] # None

\* The step applies add_inner_shell or a remove_inner_shell that returns true
InnerShellsChange ==
    \/ bodyOp'.op = "add_inner_shell"
    \/ bodyOp'.op = "remove_inner_shell" /\ bodyOp'.ret

\* A body just made by new_solid over a present shell reports Solid
NewSolidReportsSolid ==
    (bodyOp.op = "new_solid" /\ OuterShellPresent) => body_type(body, shells) = "Solid"

\* Any other step leaves a new_solid body reporting Solid
StaysSolid ==
    (AsNewSolid /\ OuterShellPresent /\ ~InnerShellsChange) =>
        body_type(body', shells') = "Solid"

----------------------------------------------------------------------------
(* Mass and volume *)

\* C28: after any sequence of the setters and invalidate_cache, mass() is available
\* exactly when volume() is, and when both are, mass() is material.density x volume()
\* and equals calculate_mass().
C28_MassFollowsVolume ==
    /\ mass(props) # None <=> volume(props) # None
    /\ volume(props) # None =>
        /\ mass(props)[1] = props.material.density * volume(props)[1]
        /\ mass(props) = calculate_mass(props)

\* A volume has been set on properties whose material is not of the default density
C28_Witness ==
    /\ propsOp.op = "set_volume"
    /\ props.material.density # MaterialDefault.density
    /\ volume(props) # None /\ volume(props)[1] > 0
    /\ mass(props) # None

----------------------------------------------------------------------------
(* The reference origin *)

\* C29: the reference origin of every plane of unit normal returned by a constructor or
\* by flip_normal, align_to_vector or rotate_around_normal lies on the plane:
\* plane.distance(plane.origin) is zero.
C29_OriginLiesOnPlane ==
    (planeOp.op \notin {"idle", "brep_new"} /\ planeOp.result # None
        /\ UnitLength(ResultCore.normal)) =>
        FEq(distance(ResultCore, ResultCore.origin), Whole(0))

\* The same, for every entry point but from_point_normal
OriginLiesOnPlaneWithoutOffset ==
    (planeOp.op \notin {"idle", "brep_new", "from_point_normal"} /\ planeOp.result # None
        /\ UnitLength(ResultCore.normal)) =>
        FEq(distance(ResultCore, ResultCore.origin), Whole(0))

----------------------------------------------------------------------------
(* Removals *)

\* after is before without its first occurrence of x
FirstOccurrenceRemoved(before, after, x) ==
    \E i \in 1..Len(before) :
        /\ before[i] = x
        /\ \A j \in 1..(i - 1) : before[j] # x
        /\ Len(after) = Len(before) - 1
        /\ \A j \in 1..Len(after) : after[j] = IF j < i THEN before[j] ELSE before[j + 1]

\* A step that calls Shell::remove_face
RemoveFaceEffect ==
    (bodyVars' = bodyVars /\ shellOp'.op = "remove_face") =>
        IF shellOp'.face \in Range(shell.faces)
        THEN shellOp'.ret /\ FirstOccurrenceRemoved(shell.faces, shell'.faces, shellOp'.face)
        ELSE /\ ~shellOp'.ret
             /\ shell'.faces = shell.faces
             /\ shell'.is_closed = shell.is_closed
             /\ shell'.boundary_edges = shell.boundary_edges

\* A step that calls Body::remove_inner_shell
RemoveInnerShellEffect ==
    (shellVars' = shellVars /\ bodyOp'.op = "remove_inner_shell") =>
        IF bodyOp'.ref \in Range(body.inner_shells)
        THEN bodyOp'.ret
             /\ FirstOccurrenceRemoved(body.inner_shells, body'.inner_shells, bodyOp'.ref)
        ELSE /\ ~bodyOp'.ret
             /\ body'.inner_shells = body.inner_shells
             /\ body'.body_type = body.body_type

\* C30: remove_face of a face not in the shell returns false and leaves faces, is_closed
\* and the cached boundary edges unchanged; remove_inner_shell of a shell not among the
\* inner shells returns false and leaves inner_shells and the cached body type unchanged;
\* a successful removal returns true and removes exactly the first occurrence.
C30_FailedRemovalChangesNothing == [][RemoveFaceEffect /\ RemoveInnerShellEffect]_vars

\* A remove_face has failed on a shell that holds faces and cached boundary edges
C30_Witness ==
    /\ shellOp.op = "remove_face" /\ ~shellOp.ret
    /\ shell.faces # <<>> /\ shell.boundary_edges # None

\* A remove_inner_shell has failed on a body that holds inner shells and a cached type
FailedInnerRemovalReached ==
    /\ bodyOp.op = "remove_inner_shell" /\ ~bodyOp.ret
    /\ body.inner_shells # <<>> /\ body.body_type # None

====
